---- MODULE Spec2Model ----
(***************************************************************************)
(* The catalog cache of XtreamCodesApi (services/api/xtreamCodesApi.ts):   *)
(* four single-slot in-memory cache entries, their mirror in AsyncStorage, *)
(* the session (credentials, authData) that gates them, and the public     *)
(* operations getVodStreams, getSeries, getVodCategories,                  *)
(* getSeriesCategories, clearCache, login and logout.                      *)
(*                                                                         *)
(* Every await of the source is a suspension point: a pending HTTP request *)
(* is a call whose pc names the request it waits for, a pending            *)
(* AsyncStorage operation is an element of storeQ.  The code that runs     *)
(* between two suspension points is one atomic action.                     *)
(***************************************************************************)
EXTENDS Integers, Sequences, FiniteSets, TLC

----------------------------------------------------------------------------
(* Program constants                                                       *)

AUTH_STORAGE_KEY == "huluxtream_auth"
VOD_CACHE_KEY == "huluxtream_vod_cache"
VOD_CATEGORIES_CACHE_KEY == "huluxtream_vod_categories_cache"
SERIES_CACHE_KEY == "huluxtream_series_cache"
SERIES_CATEGORIES_CACHE_KEY == "huluxtream_series_categories_cache"
CACHE_EXPIRY_TIME == 24 * 60 * 60 * 1000

----------------------------------------------------------------------------
(* Bounds of the model                                                     *)

\* The requests the calls of the client of SpecCatalog send.
MaxRequests == 3
\* The same, for the client of SpecExpiry.
MaxExpiryRequests == 2
\* The same, for the clients of SpecRestart, SpecLogout and SpecClearCache.
MaxRestartRequests == 1
MaxLogoutRequests == 5
MaxClearRequests == 5
\* The same, for the client of SpecInvalidate.
MaxInvalidateRequests == 2
\* The same, for the client of SpecLogoutRace.
MaxRaceRequests == 2
\* The same, for the client of SpecMalformed.
MaxMalformedRequests == 2
\* The same, for the client of SpecClearRace.
MaxClearRaceRequests == 2
\* The same, for the client of SpecOverlap.
MaxOverlapRequests == 2
\* The same, for the client of SpecStale.
MaxStaleRequests == 2
\* The same, for the client of SpecRelogin.
MaxReloginRequests == 2
\* The same, for the client of SpecStartupRace.
MaxStartupRaceRequests == 2
\* The same, for the client of SpecAuthProvider.
MaxProviderRequests == 1
\* Call slots: public operations that can be in flight together.
MaxCalls == 2
\* Days the clock can reach.
MaxDays == 1

----------------------------------------------------------------------------
(* Values                                                                  *)

\* JavaScript's null and undefined.
NULL == [null |-> TRUE]
UNDEFINED == "undefined"

Users == {"alice", "bob"}
\* category_id arguments: none, or one of two categories.
CategoryIds == {UNDEFINED, "5", "6"}

\* Instants the clock can show: the start, and around every multiple of the
\* expiry time.
Instants ==
  {0} \cup UNION {{d * CACHE_EXPIRY_TIME - 1, d * CACHE_EXPIRY_TIME,
                   d * CACHE_EXPIRY_TIME + 1} : d \in 1..MaxDays}

\* The cache fields of the class, by name.
CacheFields ==
  {"vodCache", "vodCategoriesCache", "seriesCache", "seriesCategoriesCache"}

\* The AsyncStorage key each cache field is saved under.
CacheKey(field) ==
  CASE field = "vodCache" -> VOD_CACHE_KEY
    [] field = "vodCategoriesCache" -> VOD_CATEGORIES_CACHE_KEY
    [] field = "seriesCache" -> SERIES_CACHE_KEY
    [] field = "seriesCategoriesCache" -> SERIES_CATEGORIES_CACHE_KEY

CacheKeys == {CacheKey(f) : f \in CacheFields}

\* The user-scoped keys logout removes: favorites and parental control.
UserKeys(username) ==
  << "huluxtream_favorites_" \o username,
     username \o "_huluxtream_parental_control_enabled",
     username \o "_huluxtream_parental_control_pin",
     username \o "_huluxtream_restricted_categories" >>

StoreKeys ==
  {AUTH_STORAGE_KEY} \cup CacheKeys
    \cup UNION {{UserKeys(u)[i] : i \in 1..4} : u \in Users}

\* The four cached catalog operations.
StreamOps == {"getVodStreams", "getSeries"}
CategoryOps == {"getVodCategories", "getSeriesCategories"}
FetchOps == StreamOps \cup CategoryOps

\* The cache field an operation reads and fills.
FieldOf(op) ==
  CASE op = "getVodStreams" -> "vodCache"
    [] op = "getVodCategories" -> "vodCategoriesCache"
    [] op = "getSeries" -> "seriesCache"
    [] op = "getSeriesCategories" -> "seriesCategoriesCache"

\* The action parameter of the request an operation sends.
ActionOf(op) ==
  CASE op = "getVodStreams" -> "get_vod_streams"
    [] op = "getVodCategories" -> "get_vod_categories"
    [] op = "getSeries" -> "get_series"
    [] op = "getSeriesCategories" -> "get_series_categories"
    [] op = "getLiveStreams" -> "get_live_streams"

\* The category_type a category operation stamps on every record.
CategoryTypeOf(op) ==
  CASE op = "getVodCategories" -> "movie"
    [] op = "getSeriesCategories" -> "series"

----------------------------------------------------------------------------
(* State                                                                   *)

VARIABLES
  credentials,   \* this.credentials: NULL or the credentials of a user
  authData,      \* this.authData: NULL or the auth response
  cache,         \* the four cache fields: NULL or {data, timestamp, categoryId}
  store,         \* AsyncStorage: key -> NULL or the stored text
  storeQ,        \* AsyncStorage operations issued and not yet completed
  now,           \* Date.now()
  nreq,          \* catalog requests sent to the remote service so far
  calls,         \* the public operations in flight, by call slot
  loader,        \* the constructor's loadCredentials() and loadCaches()
  provider,      \* AuthProvider: its isLoading and isLoggedIn state
  history        \* what the properties need of the past (never read by an action)

vars ==
  << credentials, authData, cache, store, storeQ, now, nreq, calls, loader,
     provider, history >>

----------------------------------------------------------------------------
(* Session                                                                 *)

\* The XtreamCredentials of a user.
CredentialsOf(u) == [username |-> u, password |-> u, serverUrl |-> u]

\* The AuthResponse the server gives a user whose login is accepted.
AuthResponseOf(u) == [user_info |-> [username |-> u, auth |-> 1]]

\* isLoggedIn: !!(this.credentials && this.authData)
isLoggedIn == credentials # NULL /\ authData # NULL

\* ensureAuthenticated does not throw.
ensureAuthenticated == ~(credentials = NULL \/ authData = NULL)

\* getUserInfo()?.username
getUserInfoUsername ==
  IF credentials = NULL \/ authData = NULL
    THEN UNDEFINED
    ELSE credentials.username

----------------------------------------------------------------------------
(* JSON text.  JSON.stringify leaves out the properties whose value is     *)
(* undefined; a property the parsed object lacks reads as undefined.       *)

\* The cache object saveVodCache and its siblings build.
CacheObject(data, timestamp, categoryId) ==
  [data |-> data, timestamp |-> timestamp, categoryId |-> categoryId]

\* JSON.stringify(cacheObject)
StringifyCache(obj) ==
  IF obj.categoryId = UNDEFINED
    THEN [json |-> [data |-> obj.data, timestamp |-> obj.timestamp]]
    ELSE [json |-> [data |-> obj.data, timestamp |-> obj.timestamp,
                    categoryId |-> obj.categoryId]]

\* JSON.parse accepts the text.
Parses(text) == "json" \in DOMAIN text

\* Mutant of ParseCache: the category of the text is not read.
ParseCache_DropsCategory(text) ==
  [data |-> text.json.data,
   timestamp |-> text.json.timestamp,
   categoryId |-> UNDEFINED]

\* Mutant of ParseCache: the entry is stamped with the time it is read.
ParseCache_Restamps(text) ==
  [data |-> text.json.data,
   timestamp |-> now,
   categoryId |-> IF "categoryId" \in DOMAIN text.json
                    THEN text.json.categoryId
                    ELSE UNDEFINED]

\* JSON.parse(text) of a cache text, read through the cache field's type.
ParseCache(text) ==
  [data |-> text.json.data,
   timestamp |-> text.json.timestamp,
   categoryId |-> IF "categoryId" \in DOMAIN text.json
                    THEN text.json.categoryId
                    ELSE UNDEFINED]

\* JSON.stringify({credentials, authData})
StringifyAuth(c, a) == [json |-> [credentials |-> c, authData |-> a]]

----------------------------------------------------------------------------
(* AsyncStorage.  Operations complete in the order they were issued; each  *)
(* completes or fails.  owner names the continuation that awaits it.       *)

\* object goes with a setItem for the properties' sake: the object the
\* text was made from.
StoreOp(op, key, value, object, owner, slot) ==
  [op |-> op, key |-> key, value |-> value, object |-> object,
   owner |-> owner, slot |-> slot]

getItem(key, owner) == StoreOp("getItem", key, NULL, NULL, owner, 0)

setItem(key, value, object, owner, slot) ==
  StoreOp("setItem", key, value, object, owner, slot)

removeItem(key, slot) == StoreOp("removeItem", key, NULL, NULL, "call", slot)

\* The store after an operation completed.
StoreAfter(s, o) ==
  CASE o.op = "setItem" -> [s EXCEPT ![o.key] = o.value]
    [] o.op = "removeItem" -> [s EXCEPT ![o.key] = NULL]
    [] OTHER -> s

\* An operation completes (ok) or fails: the store afterwards.
Completed(o, ok) == IF ok THEN StoreAfter(store, o) ELSE store

\* history.persisted: for every cache key, the cache object whose text the
\* store holds (NULL when the key is absent).
Persisted(o, ok) ==
  IF ok /\ o.key \in CacheKeys /\ o.op # "getItem"
    THEN [history EXCEPT !.persisted[o.key] = o.object]
    ELSE history

\* history.clearedAt: the number of requests that had been sent when
\* logout() or clearCache() last cleared the cache fields; history.had: the
\* fields that were set then.
Cleared ==
  [history EXCEPT !.clearedAt = nreq,
                  !.had = {f \in DOMAIN cache : cache[f] # NULL}]

----------------------------------------------------------------------------
(* Cache validity                                                          *)

\* Mutants of isCacheValid: the comparison the other way round, and the
\* expiry time itself still valid.
isCacheValid_Reversed(timestamp) == now - timestamp > CACHE_EXPIRY_TIME
isCacheValid_Inclusive(timestamp) == now - timestamp <= CACHE_EXPIRY_TIME

\* isCacheValid(timestamp)
isCacheValid(timestamp) == now - timestamp < CACHE_EXPIRY_TIME

\* Mutant of StreamCacheHit: the category is not compared.
StreamCacheHit_AnyCategory(field, category_id) ==
  /\ cache[field] # NULL
  /\ isCacheValid(cache[field].timestamp)

\* Mutant of StreamCacheHit: an unfiltered entry serves every category.
StreamCacheHit_UnfilteredServesAll(field, category_id) ==
  /\ cache[field] # NULL
  /\ isCacheValid(cache[field].timestamp)
  /\ \/ cache[field].categoryId = category_id
     \/ cache[field].categoryId = UNDEFINED

\* The cache check of getVodStreams and getSeries.
StreamCacheHit(field, category_id) ==
  /\ cache[field] # NULL
  /\ isCacheValid(cache[field].timestamp)
  /\ cache[field].categoryId = category_id

\* Mutant of CategoryCacheHit: a fresh stream entry keeps the entry valid.
CategoryCacheHit_StreamsFresh(field) ==
  /\ cache[field] # NULL
  /\ \/ isCacheValid(cache[field].timestamp)
     \/ \E op \in StreamOps :
          /\ cache[FieldOf(op)] # NULL
          /\ isCacheValid(cache[FieldOf(op)].timestamp)

\* The cache check of getVodCategories and getSeriesCategories.
CategoryCacheHit(field) ==
  /\ cache[field] # NULL
  /\ isCacheValid(cache[field].timestamp)

CacheHit(op, category_id) ==
  IF op \in StreamOps
    THEN StreamCacheHit(FieldOf(op), category_id)
    ELSE CategoryCacheHit(FieldOf(op))

----------------------------------------------------------------------------
(* Remote service                                                          *)

\* The request axios.get sends: category_id only when it is truthy.
Request(id, op, category_id) ==
  [id |-> id, action |-> ActionOf(op), username |-> credentials.username,
   category_id |-> category_id]

\* response.data: the records the service answered request r with, or, when
\* the answer is malformed, something that is no array.
ResponseData(r, isArray) ==
  [id |-> r.id, username |-> r.username, isArray |-> isArray,
   category_type |-> UNDEFINED]

\* response.data.map(category => ({...category, category_type}))
MapCategoryType(data, category_type) ==
  [data EXCEPT !.category_type = category_type]

\* What a request can come back with.
Outcomes == {"ok", "malformed", "rejected"}

----------------------------------------------------------------------------
(* Calls                                                                   *)

Slots == 1..MaxCalls

Resolved(value) == [state |-> "resolved", value |-> value]
Rejected(error) == [state |-> "rejected", error |-> error]

\* A free call slot.  step counts the removals of logout() and clearCache(),
\* rewarm lists what the reloads of clearCache() came to, and sent counts
\* the requests the call sent.
IdleCall ==
  [op |-> "idle", arg |-> UNDEFINED, pc |-> "idle", req |-> NULL,
   sent |-> 0, step |-> 0, username |-> UNDEFINED, rewarm |-> << >>,
   result |-> NULL]

\* A call of op(arg) that has just been made.
NewCall(op, arg) == [IdleCall EXCEPT !.op = op, !.arg = arg]

\* The call has settled with result r.
Settle(call, r) == [call EXCEPT !.pc = "done", !.req = NULL, !.result = r]

----------------------------------------------------------------------------
(* Construction                                                            *)

\* new XtreamCodesApi(): the fields' initial values, and the reads that
\* loadCredentials() and loadCaches() issue before the constructor returns.
ConstructorReads ==
  << getItem(AUTH_STORAGE_KEY, "loadCredentials"),
     getItem(VOD_CACHE_KEY, "loadCaches"),
     getItem(VOD_CATEGORIES_CACHE_KEY, "loadCaches"),
     getItem(SERIES_CACHE_KEY, "loadCaches"),
     getItem(SERIES_CATEGORIES_CACHE_KEY, "loadCaches") >>

\* got: the texts loadCaches() has read so far.
LoaderStarted == [credentials |-> "reading", caches |-> "reading", got |-> << >>]

\* AuthProvider as it is first rendered: useState(true) for isLoading,
\* useState(false) for isLoggedIn; mounted tells that its effect has run.
\* Its error and authData states are shown only and are left out.
ProviderMounting ==
  [isLoading |-> TRUE, isLoggedIn |-> FALSE, mounted |-> FALSE]

Init ==
  /\ credentials = NULL
  /\ authData = NULL
  /\ cache = [f \in CacheFields |-> NULL]
  /\ store = [k \in StoreKeys |-> NULL]
  /\ storeQ = ConstructorReads
  /\ now = 0
  /\ nreq = 0
  /\ calls = [c \in Slots |-> IdleCall]
  /\ loader = LoaderStarted
  /\ provider = ProviderMounting
  /\ history = [persisted |-> [k \in CacheKeys |-> NULL], clearedAt |-> 0,
                had |-> {}]

----------------------------------------------------------------------------
(* Saving a cache entry: the entry replaces the field at once, the write   *)
(* to AsyncStorage is issued and nobody waits for it.                      *)

\* Mutant of SaveCache: the entry is not written to AsyncStorage.
SaveCache_MemoryOnly(field, data, categoryId) ==
  /\ cache' = [cache EXCEPT ![field] = CacheObject(data, now, categoryId)]
  /\ storeQ' = storeQ

\* Mutant of SaveCache: the timestamp of the entry replaced is kept.
SaveCache_KeepsTimestamp(field, data, categoryId) ==
  LET timestamp == IF cache[field] # NULL THEN cache[field].timestamp ELSE now IN
  /\ cache' = [cache EXCEPT ![field] = CacheObject(data, timestamp, categoryId)]
  /\ storeQ' = Append(storeQ,
                 setItem(CacheKey(field),
                         StringifyCache(CacheObject(data, timestamp, categoryId)),
                         CacheObject(data, timestamp, categoryId),
                         "save", 0))

\* Mutant of SaveCache: the entry of a later request is kept.
SaveCache_KeepsNewer(field, data, categoryId) ==
  IF cache[field] # NULL /\ cache[field].data.id > data.id
    THEN UNCHANGED << cache, storeQ >>
    ELSE /\ cache' = [cache EXCEPT ![field] = CacheObject(data, now, categoryId)]
         /\ storeQ' = Append(storeQ,
                        setItem(CacheKey(field),
                                StringifyCache(CacheObject(data, now, categoryId)),
                                CacheObject(data, now, categoryId),
                                "save", 0))

SaveCache(field, data, categoryId) ==
  /\ cache' = [cache EXCEPT ![field] = CacheObject(data, now, categoryId)]
  /\ storeQ' = Append(storeQ,
                 setItem(CacheKey(field),
                         StringifyCache(CacheObject(data, now, categoryId)),
                         CacheObject(data, now, categoryId),
                         "save", 0))

saveVodCache(movies, categoryId) == SaveCache("vodCache", movies, categoryId)

saveVodCategoriesCache(categories) ==
  SaveCache("vodCategoriesCache", categories, UNDEFINED)

saveSeriesCache(series, categoryId) ==
  SaveCache("seriesCache", series, categoryId)

saveSeriesCategoriesCache(categories) ==
  SaveCache("seriesCategoriesCache", categories, UNDEFINED)

\* Mutant of SaveSettles: a failed write takes the entry back.
SaveSettles_TakesBack(ok) ==
  /\ storeQ # << >>
  /\ Head(storeQ).owner = "save"
  /\ storeQ' = Tail(storeQ)
  /\ store' = Completed(Head(storeQ), ok)
  /\ history' = Persisted(Head(storeQ), ok)
  /\ cache' = IF ok THEN cache
              ELSE [f \in CacheFields |->
                      IF CacheKey(f) = Head(storeQ).key THEN NULL ELSE cache[f]]
  /\ UNCHANGED << credentials, authData, now, nreq, calls, loader >>

\* The setItem of a save completes or fails; a failure is logged.
SaveSettles(ok) ==
  /\ storeQ # << >>
  /\ Head(storeQ).owner = "save"
  /\ storeQ' = Tail(storeQ)
  /\ store' = Completed(Head(storeQ), ok)
  /\ history' = Persisted(Head(storeQ), ok)
  /\ UNCHANGED << credentials, authData, cache, now, nreq, calls, loader >>

----------------------------------------------------------------------------
(* The cached catalog operations                                           *)

\* Mutant of CatalogCall: the cache is looked at before the session.
CatalogCall_CacheFirst(c, op, category_id) ==
  /\ calls[c] = IdleCall
  /\ IF CacheHit(op, category_id)
       THEN /\ calls' = [calls EXCEPT ![c] =
                 Settle(NewCall(op, category_id),
                        Resolved(cache[FieldOf(op)].data))]
            /\ nreq' = nreq
       ELSE IF ~ensureAuthenticated
         THEN /\ calls' = [calls EXCEPT ![c] =
                   Settle(NewCall(op, category_id), Rejected("Not authenticated"))]
              /\ nreq' = nreq
         ELSE /\ nreq' = nreq + 1
              /\ calls' = [calls EXCEPT ![c] =
                   [NewCall(op, category_id) EXCEPT
                      !.pc = "request", !.sent = 1,
                      !.req = Request(nreq + 1, op, category_id)]]
  /\ UNCHANGED << credentials, authData, cache, store, storeQ, now, loader,
                  history >>

\* Mutant of CatalogCall: a hit stamps the entry with the time of the read.
CatalogCall_HitTouches(c, op, category_id) ==
  /\ calls[c] = IdleCall
  /\ IF ~ensureAuthenticated
       THEN /\ calls' = [calls EXCEPT ![c] =
                 Settle(NewCall(op, category_id), Rejected("Not authenticated"))]
            /\ nreq' = nreq
            /\ cache' = cache
       ELSE IF CacheHit(op, category_id)
         THEN /\ calls' = [calls EXCEPT ![c] =
                   Settle(NewCall(op, category_id),
                          Resolved(cache[FieldOf(op)].data))]
              /\ nreq' = nreq
              /\ cache' = [cache EXCEPT ![FieldOf(op)].timestamp = now]
         ELSE /\ nreq' = nreq + 1
              /\ calls' = [calls EXCEPT ![c] =
                   [NewCall(op, category_id) EXCEPT
                      !.pc = "request", !.sent = 1,
                      !.req = Request(nreq + 1, op, category_id)]]
              /\ cache' = cache
  /\ UNCHANGED << credentials, authData, store, storeQ, now, loader,
                  history >>

\* The call of a catalog operation up to its first await: it throws when
\* there is no session, returns the cached data on a hit, and otherwise
\* sends its request.
CatalogCall(c, op, category_id) ==
  /\ calls[c] = IdleCall
  /\ IF ~ensureAuthenticated
       THEN /\ calls' = [calls EXCEPT ![c] =
                 Settle(NewCall(op, category_id), Rejected("Not authenticated"))]
            /\ nreq' = nreq
       ELSE IF CacheHit(op, category_id)
         THEN /\ calls' = [calls EXCEPT ![c] =
                   Settle(NewCall(op, category_id),
                          Resolved(cache[FieldOf(op)].data))]
              /\ nreq' = nreq
         ELSE /\ nreq' = nreq + 1
              /\ calls' = [calls EXCEPT ![c] =
                   [NewCall(op, category_id) EXCEPT
                      !.pc = "request", !.sent = 1,
                      !.req = Request(nreq + 1, op, category_id)]]
  /\ UNCHANGED << credentials, authData, cache, store, storeQ, now, loader,
                  history >>

getVodStreams(c, category_id) == CatalogCall(c, "getVodStreams", category_id)
getSeries(c, category_id) == CatalogCall(c, "getSeries", category_id)
getVodCategories(c) == CatalogCall(c, "getVodCategories", UNDEFINED)
getSeriesCategories(c) == CatalogCall(c, "getSeriesCategories", UNDEFINED)

\* Mutant of StreamResponse: a rejected request falls back on the entry.
StreamResponse_Fallback(c, outcome) ==
  /\ calls[c].op \in StreamOps
  /\ calls[c].pc = "request"
  /\ IF outcome = "rejected"
       THEN /\ calls' = [calls EXCEPT ![c] =
                 Settle(@, IF cache[FieldOf(calls[c].op)] # NULL
                             THEN Resolved(cache[FieldOf(calls[c].op)].data)
                             ELSE Rejected("Network Error"))]
            /\ UNCHANGED << cache, storeQ >>
       ELSE LET data == ResponseData(calls[c].req, outcome = "ok") IN
            /\ IF calls[c].op = "getVodStreams"
                 THEN saveVodCache(data, calls[c].arg)
                 ELSE saveSeriesCache(data, calls[c].arg)
            /\ calls' = [calls EXCEPT ![c] = Settle(@, Resolved(data))]
  /\ UNCHANGED << credentials, authData, store, now, nreq, loader, history >>

\* The request of getVodStreams or getSeries comes back: a rejection
\* propagates; any response.data is saved and returned as it is.
StreamResponse(c, outcome) ==
  /\ calls[c].op \in StreamOps
  /\ calls[c].pc = "request"
  /\ IF outcome = "rejected"
       THEN /\ calls' = [calls EXCEPT ![c] = Settle(@, Rejected("Network Error"))]
            /\ UNCHANGED << cache, storeQ >>
       ELSE LET data == ResponseData(calls[c].req, outcome = "ok") IN
            /\ IF calls[c].op = "getVodStreams"
                 THEN saveVodCache(data, calls[c].arg)
                 ELSE saveSeriesCache(data, calls[c].arg)
            /\ calls' = [calls EXCEPT ![c] = Settle(@, Resolved(data))]
  /\ UNCHANGED << credentials, authData, store, now, nreq, loader, history >>

\* The request of getVodCategories or getSeriesCategories comes back: a
\* rejection propagates, response.data.map throws on what is no array, and
\* the mapped categories are saved and returned.
CategoryResponse(c, outcome) ==
  /\ calls[c].op \in CategoryOps
  /\ calls[c].pc = "request"
  /\ IF outcome = "rejected"
       THEN /\ calls' = [calls EXCEPT ![c] = Settle(@, Rejected("Network Error"))]
            /\ UNCHANGED << cache, storeQ >>
       ELSE IF outcome = "malformed"
         THEN /\ calls' = [calls EXCEPT ![c] = Settle(@, Rejected("TypeError"))]
              /\ UNCHANGED << cache, storeQ >>
         ELSE LET categories ==
                    MapCategoryType(ResponseData(calls[c].req, TRUE),
                                    CategoryTypeOf(calls[c].op)) IN
              /\ IF calls[c].op = "getVodCategories"
                   THEN saveVodCategoriesCache(categories)
                   ELSE saveSeriesCategoriesCache(categories)
              /\ calls' = [calls EXCEPT ![c] = Settle(@, Resolved(categories))]
  /\ UNCHANGED << credentials, authData, store, now, nreq, loader, history >>

\* The caller has taken the result of a settled call.
Return(c) ==
  /\ calls[c].pc = "done"
  /\ calls' = [calls EXCEPT ![c] = IdleCall]
  /\ UNCHANGED << credentials, authData, cache, store, storeQ, now, nreq,
                  loader, history >>

----------------------------------------------------------------------------
(* login                                                                   *)

LoginOutcomes == {"ok", "auth0", "rejected"}

\* login(credentials) up to the await of its request.
login(c, u) ==
  /\ calls[c] = IdleCall
  /\ calls' = [calls EXCEPT ![c] = [NewCall("login", u) EXCEPT !.pc = "request"]]
  /\ UNCHANGED << credentials, authData, cache, store, storeQ, now, nreq,
                  loader, history >>

\* Mutant of LoginResponse: the session is assigned before auth is looked at.
LoginResponse_AssignsFirst(c, outcome) ==
  /\ calls[c].op = "login"
  /\ calls[c].pc = "request"
  /\ IF outcome = "ok"
       THEN /\ credentials' = CredentialsOf(calls[c].arg)
            /\ authData' = AuthResponseOf(calls[c].arg)
            /\ storeQ' = Append(storeQ,
                 setItem(AUTH_STORAGE_KEY,
                         StringifyAuth(CredentialsOf(calls[c].arg),
                                       AuthResponseOf(calls[c].arg)),
                         NULL, "call", c))
            /\ calls' = [calls EXCEPT ![c].pc = "saveCredentials"]
       ELSE /\ calls' = [calls EXCEPT ![c] =
                 Settle(@, Rejected(IF outcome = "auth0"
                                      THEN "Authentication failed"
                                      ELSE "Network Error"))]
            /\ IF outcome = "auth0"
                 THEN /\ credentials' = CredentialsOf(calls[c].arg)
                      /\ authData' = AuthResponseOf(calls[c].arg)
                 ELSE UNCHANGED << credentials, authData >>
            /\ storeQ' = storeQ
  /\ UNCHANGED << cache, store, now, nreq, loader, history >>

\* The login request comes back: a rejection and auth = 0 are rethrown;
\* otherwise the session is set and saveCredentials() is awaited.
LoginResponse(c, outcome) ==
  /\ calls[c].op = "login"
  /\ calls[c].pc = "request"
  /\ IF outcome = "ok"
       THEN /\ credentials' = CredentialsOf(calls[c].arg)
            /\ authData' = AuthResponseOf(calls[c].arg)
            /\ storeQ' = Append(storeQ,
                 setItem(AUTH_STORAGE_KEY,
                         StringifyAuth(CredentialsOf(calls[c].arg),
                                       AuthResponseOf(calls[c].arg)),
                         NULL, "call", c))
            /\ calls' = [calls EXCEPT ![c].pc = "saveCredentials"]
       ELSE /\ calls' = [calls EXCEPT ![c] =
                 Settle(@, Rejected(IF outcome = "auth0"
                                      THEN "Authentication failed"
                                      ELSE "Network Error"))]
            /\ UNCHANGED << credentials, authData, storeQ >>
  /\ UNCHANGED << cache, store, now, nreq, loader, history >>

\* saveCredentials() is over, written or, after a logged failure, not:
\* login returns response.data.
saveCredentials(c, ok) ==
  /\ storeQ # << >>
  /\ Head(storeQ).owner = "call"
  /\ Head(storeQ).slot = c
  /\ calls[c].op = "login"
  /\ storeQ' = Tail(storeQ)
  /\ store' = Completed(Head(storeQ), ok)
  /\ calls' = [calls EXCEPT ![c] =
       Settle(@, Resolved(AuthResponseOf(calls[c].arg)))]
  /\ UNCHANGED << credentials, authData, cache, now, nreq, loader, history >>

----------------------------------------------------------------------------
(* The clock                                                               *)

Tick ==
  /\ \E t \in Instants : t > now /\ now' = t
  /\ UNCHANGED << credentials, authData, cache, store, storeQ, nreq, calls,
                  loader, provider, history >>

----------------------------------------------------------------------------
(* Startup restore                                                         *)

\* The read of loadCredentials() completes or fails: a stored session is
\* parsed and becomes the session; a failure is logged.
loadCredentials(ok) ==
  /\ storeQ # << >>
  /\ Head(storeQ).owner = "loadCredentials"
  /\ storeQ' = Tail(storeQ)
  /\ LET storedAuth == store[AUTH_STORAGE_KEY] IN
     IF ok /\ storedAuth # NULL /\ Parses(storedAuth)
       THEN /\ credentials' = storedAuth.json.credentials
            /\ authData' = storedAuth.json.authData
       ELSE UNCHANGED << credentials, authData >>
  /\ loader' = [loader EXCEPT !.credentials = "done"]
  /\ UNCHANGED << cache, store, now, nreq, calls, history >>

\* The cache fields in the order loadCaches() reads and assigns them.
LoadOrder ==
  << "vodCache", "vodCategoriesCache", "seriesCache", "seriesCategoriesCache" >>

\* The first text of got that JSON.parse throws on, or Len(got) + 1.
FirstUnparsed(got) ==
  LET bad == {i \in 1..Len(got) : got[i] # NULL /\ ~Parses(got[i])} IN
  IF bad = {} THEN Len(got) + 1
  ELSE CHOOSE i \in bad : \A j \in bad : i <= j

\* The cache fields after loadCaches() has assigned the texts it read: every
\* text present is parsed into its field, up to the first that fails.
LoadedCaches(got) ==
  [f \in CacheFields |->
     LET i == CHOOSE j \in 1..Len(LoadOrder) : LoadOrder[j] = f IN
     IF got[i] # NULL /\ i < FirstUnparsed(got)
       THEN ParseCache(got[i])
       ELSE cache[f]]

\* One of the four reads of loadCaches() completes or fails.  Promise.all
\* rejects on the first failure, and nothing is assigned; when the fourth
\* read has completed the fields are assigned.
loadCaches(ok) ==
  /\ storeQ # << >>
  /\ Head(storeQ).owner = "loadCaches"
  /\ storeQ' = Tail(storeQ)
  /\ IF loader.caches # "reading"
       THEN UNCHANGED << cache, loader >>
       ELSE IF ~ok
         THEN /\ loader' = [loader EXCEPT !.caches = "failed"]
              /\ cache' = cache
         ELSE LET got == Append(loader.got, store[Head(storeQ).key]) IN
              IF Len(got) < Len(LoadOrder)
                THEN /\ loader' = [loader EXCEPT !.got = got]
                     /\ cache' = cache
                ELSE /\ loader' = [loader EXCEPT !.got = got, !.caches = "loaded"]
                     /\ cache' = LoadedCaches(got)
  /\ UNCHANGED << credentials, authData, store, now, nreq, calls, history >>

\* The process is restarted: a new XtreamCodesApi is constructed over the
\* same AsyncStorage; what the old process had not written is lost.
NewXtreamCodesApi ==
  /\ credentials' = NULL
  /\ authData' = NULL
  /\ cache' = [f \in CacheFields |-> NULL]
  /\ storeQ' = ConstructorReads
  /\ calls' = [c \in Slots |-> IdleCall]
  /\ loader' = LoaderStarted
  /\ UNCHANGED << store, now, nreq, history >>

----------------------------------------------------------------------------
(* logout and clearCache                                                   *)

\* The keys logout() removes without a try.
LogoutKeys ==
  << AUTH_STORAGE_KEY, VOD_CACHE_KEY, VOD_CATEGORIES_CACHE_KEY,
     SERIES_CACHE_KEY, SERIES_CATEGORIES_CACHE_KEY >>

\* Mutant of logout: the category fields are left as they are.
logout_KeepsCategories(c) ==
  /\ calls[c] = IdleCall
  /\ credentials' = NULL
  /\ authData' = NULL
  /\ cache' = [cache EXCEPT !["vodCache"] = NULL, !["seriesCache"] = NULL]
  /\ storeQ' = Append(storeQ, removeItem(LogoutKeys[1], c))
  /\ calls' = [calls EXCEPT ![c] =
       [NewCall("logout", UNDEFINED) EXCEPT
          !.pc = "remove", !.step = 1, !.username = getUserInfoUsername]]
  /\ history' = Cleared
  /\ UNCHANGED << store, now, nreq, loader >>

\* logout() up to its first await: the session and the four cache fields
\* are cleared and the first removal is issued.
logout(c) ==
  /\ calls[c] = IdleCall
  /\ credentials' = NULL
  /\ authData' = NULL
  /\ cache' = [f \in CacheFields |-> NULL]
  /\ storeQ' = Append(storeQ, removeItem(LogoutKeys[1], c))
  /\ calls' = [calls EXCEPT ![c] =
       [NewCall("logout", UNDEFINED) EXCEPT
          !.pc = "remove", !.step = 1, !.username = getUserInfoUsername]]
  /\ history' = Cleared
  /\ UNCHANGED << store, now, nreq, loader >>

\* A removal of logout() completes or fails.  A failure among the first
\* five rejects logout(); then, with a username, the user's keys are removed
\* inside a try, where a failure is logged and ends the removals.
LogoutRemoved(c, ok) ==
  /\ storeQ # << >>
  /\ Head(storeQ).owner = "call"
  /\ Head(storeQ).slot = c
  /\ calls[c].op = "logout"
  /\ store' = Completed(Head(storeQ), ok)
  /\ history' = Persisted(Head(storeQ), ok)
  /\ LET step == calls[c].step
         username == calls[c].username
         last == Len(LogoutKeys) + Len(UserKeys(username))
     IN
     IF step <= Len(LogoutKeys)
       THEN IF ~ok
         THEN /\ calls' = [calls EXCEPT ![c] = Settle(@, Rejected("Storage error"))]
              /\ storeQ' = Tail(storeQ)
         ELSE IF step < Len(LogoutKeys)
           THEN /\ calls' = [calls EXCEPT ![c].step = step + 1]
                /\ storeQ' = Append(Tail(storeQ), removeItem(LogoutKeys[step + 1], c))
           ELSE IF username # UNDEFINED
             THEN /\ calls' = [calls EXCEPT ![c].step = step + 1]
                  /\ storeQ' = Append(Tail(storeQ),
                                      removeItem(UserKeys(username)[1], c))
             ELSE /\ calls' = [calls EXCEPT ![c] = Settle(@, Resolved(NULL))]
                  /\ storeQ' = Tail(storeQ)
       ELSE IF ok /\ step < last
         THEN /\ calls' = [calls EXCEPT ![c].step = step + 1]
              /\ storeQ' = Append(Tail(storeQ),
                   removeItem(UserKeys(username)[step + 1 - Len(LogoutKeys)], c))
         ELSE /\ calls' = [calls EXCEPT ![c] = Settle(@, Resolved(NULL))]
              /\ storeQ' = Tail(storeQ)
  /\ UNCHANGED << credentials, authData, cache, now, nreq, loader >>

\* The keys clearCache() removes.
ClearCacheKeys ==
  << VOD_CACHE_KEY, VOD_CATEGORIES_CACHE_KEY, SERIES_CACHE_KEY,
     SERIES_CATEGORIES_CACHE_KEY >>

\* What one reload of clearCache() came to: "resolved" with the data of its
\* request, "hit" with cached data, "rejected", or "threw" (no session).
Reloaded(call, op, outcome, data) ==
  [call EXCEPT !.rewarm = Append(@, [op |-> op, outcome |-> outcome, data |-> data])]

\* The reload op sends its request and clearCache() awaits it.
ReloadRequest(call, op) ==
  [call EXCEPT !.pc = op, !.sent = @ + 1,
               !.req = Request(nreq + 1, op, UNDEFINED)]

\* clearCache() logs and resolves.
ReloadEnd(call) == Settle(call, Resolved(NULL))

\* try { seriesContent = await this.getSeries() } catch { log }
ReloadSeries(call) ==
  IF ~ensureAuthenticated
    THEN ReloadEnd(Reloaded(call, "getSeries", "threw", NULL))
    ELSE IF CacheHit("getSeries", UNDEFINED)
      THEN ReloadEnd(Reloaded(call, "getSeries", "hit", cache["seriesCache"].data))
      ELSE ReloadRequest(call, "getSeries")

\* Mutant of ReloadVod: getVodStreams() is not reloaded.
ReloadVod_Skipped(call) == ReloadSeries(call)

\* try { vodContent = await this.getVodStreams() } catch { log }
ReloadVod(call) ==
  IF ~ensureAuthenticated
    THEN ReloadSeries(Reloaded(call, "getVodStreams", "threw", NULL))
    ELSE IF CacheHit("getVodStreams", UNDEFINED)
      THEN ReloadSeries(Reloaded(call, "getVodStreams", "hit",
                                 cache["vodCache"].data))
      ELSE ReloadRequest(call, "getVodStreams")

\* try { liveChannels = await this.getLiveStreams() } catch { log }
ReloadLive(call) ==
  IF ~ensureAuthenticated
    THEN ReloadVod(Reloaded(call, "getLiveStreams", "threw", NULL))
    ELSE ReloadRequest(call, "getLiveStreams")

\* Mutant of Reload: the reloads are tried without looking at the session.
Reload_Always(call) == ReloadLive(call)

\* The reloads after the removals: only with credentials and auth data.
Reload(call) ==
  IF credentials # NULL /\ authData # NULL
    THEN ReloadLive(call)
    ELSE ReloadEnd(call)

\* The request counter after a step that took a call to next.
SentBy(next) == IF next.req # NULL THEN nreq + 1 ELSE nreq

\* Mutant of clearCache: the session of the object is dropped as well.
clearCache_DropsSession(c) ==
  /\ calls[c] = IdleCall
  /\ credentials' = NULL
  /\ authData' = NULL
  /\ cache' = [f \in CacheFields |-> NULL]
  /\ storeQ' = Append(storeQ, removeItem(ClearCacheKeys[1], c))
  /\ calls' = [calls EXCEPT ![c] =
       [NewCall("clearCache", UNDEFINED) EXCEPT
          !.pc = "remove", !.step = 1]]
  /\ history' = Cleared
  /\ UNCHANGED << store, now, nreq, loader >>

\* clearCache() up to its first await: the four cache fields are cleared
\* and the first removal is issued.
clearCache(c) ==
  /\ calls[c] = IdleCall
  /\ cache' = [f \in CacheFields |-> NULL]
  /\ storeQ' = Append(storeQ, removeItem(ClearCacheKeys[1], c))
  /\ calls' = [calls EXCEPT ![c] =
       [NewCall("clearCache", UNDEFINED) EXCEPT
          !.pc = "remove", !.step = 1]]
  /\ history' = Cleared
  /\ UNCHANGED << credentials, authData, store, now, nreq, loader >>

\* A removal of clearCache() completes or fails.  A failure rejects
\* clearCache(); after the fourth removal the reloads begin.
ClearCacheRemoved(c, ok) ==
  /\ storeQ # << >>
  /\ Head(storeQ).owner = "call"
  /\ Head(storeQ).slot = c
  /\ calls[c].op = "clearCache"
  /\ store' = Completed(Head(storeQ), ok)
  /\ history' = Persisted(Head(storeQ), ok)
  /\ LET step == calls[c].step IN
     IF ~ok
       THEN /\ calls' = [calls EXCEPT ![c] = Settle(@, Rejected("Storage error"))]
            /\ storeQ' = Tail(storeQ)
            /\ nreq' = nreq
       ELSE IF step < Len(ClearCacheKeys)
         THEN /\ calls' = [calls EXCEPT ![c].step = step + 1]
              /\ storeQ' = Append(Tail(storeQ),
                                  removeItem(ClearCacheKeys[step + 1], c))
              /\ nreq' = nreq
         ELSE LET next == Reload([calls[c] EXCEPT !.pc = "reload",
                                                  !.step = step + 1]) IN
              /\ calls' = [calls EXCEPT ![c] = next]
              /\ storeQ' = Tail(storeQ)
              /\ nreq' = SentBy(next)
  /\ UNCHANGED << credentials, authData, cache, now, loader >>

\* Mutant of ClearCacheLiveResponse: a rejection is not caught.
ClearCacheLiveResponse_Throws(c, outcome) ==
  /\ calls[c].op = "clearCache"
  /\ calls[c].pc = "getLiveStreams"
  /\ LET data == ResponseData(calls[c].req, outcome = "ok")
         done == [calls[c] EXCEPT !.req = NULL]
         next == IF outcome = "rejected"
                   THEN Settle(Reloaded(done, "getLiveStreams", "rejected", NULL),
                               Rejected("Network Error"))
                   ELSE ReloadVod(Reloaded(done, "getLiveStreams", "resolved", data))
     IN
     /\ calls' = [calls EXCEPT ![c] = next]
     /\ nreq' = SentBy(next)
  /\ UNCHANGED << credentials, authData, cache, store, storeQ, now, loader,
                  history >>

\* The request of getLiveStreams() comes back; clearCache() goes on to
\* getVodStreams().
ClearCacheLiveResponse(c, outcome) ==
  /\ calls[c].op = "clearCache"
  /\ calls[c].pc = "getLiveStreams"
  /\ LET data == ResponseData(calls[c].req, outcome = "ok")
         done == [calls[c] EXCEPT !.req = NULL]
         next == ReloadVod(
                   IF outcome = "rejected"
                     THEN Reloaded(done, "getLiveStreams", "rejected", NULL)
                     ELSE Reloaded(done, "getLiveStreams", "resolved", data))
     IN
     /\ calls' = [calls EXCEPT ![c] = next]
     /\ nreq' = SentBy(next)
  /\ UNCHANGED << credentials, authData, cache, store, storeQ, now, loader,
                  history >>

\* The request of getVodStreams() comes back: its data is saved unless the
\* request was rejected; clearCache() goes on to getSeries().
ClearCacheVodResponse(c, outcome) ==
  /\ calls[c].op = "clearCache"
  /\ calls[c].pc = "getVodStreams"
  /\ LET data == ResponseData(calls[c].req, outcome = "ok")
         done == [calls[c] EXCEPT !.req = NULL]
         next == ReloadSeries(
                   IF outcome = "rejected"
                     THEN Reloaded(done, "getVodStreams", "rejected", NULL)
                     ELSE Reloaded(done, "getVodStreams", "resolved", data))
     IN
     /\ IF outcome = "rejected"
          THEN UNCHANGED << cache, storeQ >>
          ELSE saveVodCache(data, UNDEFINED)
     /\ calls' = [calls EXCEPT ![c] = next]
     /\ nreq' = SentBy(next)
  /\ UNCHANGED << credentials, authData, store, now, loader, history >>

\* The request of getSeries() comes back: its data is saved unless the
\* request was rejected; clearCache() resolves.
ClearCacheSeriesResponse(c, outcome) ==
  /\ calls[c].op = "clearCache"
  /\ calls[c].pc = "getSeries"
  /\ LET data == ResponseData(calls[c].req, outcome = "ok")
         done == [calls[c] EXCEPT !.req = NULL]
     IN
     /\ IF outcome = "rejected"
          THEN UNCHANGED << cache, storeQ >>
          ELSE saveSeriesCache(data, UNDEFINED)
     /\ calls' = [calls EXCEPT ![c] =
          ReloadEnd(IF outcome = "rejected"
                      THEN Reloaded(done, "getSeries", "rejected", NULL)
                      ELSE Reloaded(done, "getSeries", "resolved", data))]
  /\ UNCHANGED << credentials, authData, store, now, nreq, loader, history >>

----------------------------------------------------------------------------
(* AuthProvider                                                            *)

\* checkLoginStatus(), run once by the effect of AuthProvider: isLoggedIn()
\* awaits nothing, so the provider gets what the object holds at the call.
checkLoginStatus ==
  /\ ~provider.mounted
  /\ provider' = [isLoading |-> FALSE, isLoggedIn |-> isLoggedIn,
                  mounted |-> TRUE]
  /\ UNCHANGED << credentials, authData, cache, store, storeQ, now, nreq,
                  calls, loader, history >>

\* setIsLoading(true), with which login and logout of the provider begin.
ProviderAwaits == [provider EXCEPT !.isLoading = TRUE]

\* The provider after the call it awaited has settled: setIsLoggedIn(true)
\* after a login and setIsLoggedIn(false) after a logout that resolved,
\* nothing but the log after one that rejected, and setIsLoading(false) in
\* both cases.  The other operations are not called by the provider.
ProviderContinues(call) ==
  IF call.op \notin {"login", "logout"}
    THEN provider
    ELSE IF call.result.state = "resolved"
      THEN [provider EXCEPT !.isLoggedIn = (call.op = "login"),
                            !.isLoading = FALSE]
      ELSE [provider EXCEPT !.isLoading = FALSE]

----------------------------------------------------------------------------
(* The client that awaits every operation: it starts one only when the     *)
(* startup restore is over and its previous operation has returned.  The   *)
(* writes of the saves, which no operation awaits, stay in flight.         *)

StartupOver == loader.credentials = "done" /\ loader.caches # "reading"

Quiet == StartupOver /\ \A c \in Slots : calls[c] = IdleCall

\* The slot a new call takes: the lowest free one.
FreeSlot(c) ==
  /\ calls[c] = IdleCall
  /\ \A d \in Slots : d < c => calls[d] # IdleCall

\* The client calls a catalog operation; the calls send no more than budget
\* requests.
CallCatalog(categoryIds, budget) ==
  \/ \E c \in Slots, category_id \in categoryIds :
       Quiet /\ FreeSlot(c) /\ getVodStreams(c, category_id) /\ nreq' <= budget
       /\ UNCHANGED provider
  \/ \E c \in Slots, category_id \in categoryIds :
       Quiet /\ FreeSlot(c) /\ getSeries(c, category_id) /\ nreq' <= budget
       /\ UNCHANGED provider
  \/ \E c \in Slots :
       Quiet /\ FreeSlot(c) /\ getVodCategories(c) /\ nreq' <= budget
       /\ UNCHANGED provider
  \/ \E c \in Slots :
       Quiet /\ FreeSlot(c) /\ getSeriesCategories(c) /\ nreq' <= budget
       /\ UNCHANGED provider

\* A catalog request comes back, a result is taken.
RunCatalog(outcomes) ==
  \/ \E c \in Slots, outcome \in outcomes :
       StreamResponse(c, outcome) /\ UNCHANGED provider
  \/ \E c \in Slots, outcome \in outcomes :
       CategoryResponse(c, outcome) /\ UNCHANGED provider
  \/ \E c \in Slots : Return(c) /\ provider' = ProviderContinues(calls[c])

\* The write of a save completes or, where it can, fails.
RunSave(oks) == (\E ok \in oks : SaveSettles(ok)) /\ UNCHANGED provider

\* The login runs.
RunLogin(oks) ==
  \/ \E c \in Slots, outcome \in LoginOutcomes : LoginResponse(c, outcome)
       /\ UNCHANGED provider
  \/ \E c \in Slots, ok \in oks : saveCredentials(c, ok)
       /\ UNCHANGED provider

\* The client logs in, whether a session is held or not.
Login(users, oks) ==
  \/ \E c \in Slots, u \in users :
       Quiet /\ FreeSlot(c) /\ login(c, u) /\ provider' = ProviderAwaits
  \/ RunLogin(oks)

\* The client logs in when no session is held.
FirstLogin(users, oks) ==
  \/ \E c \in Slots, u \in users :
       /\ Quiet /\ ~isLoggedIn /\ FreeSlot(c) /\ login(c, u)
       /\ provider' = ProviderAwaits
  \/ RunLogin(oks)

\* The client logs out; the logout runs.
Logout(oks) ==
  \/ \E c \in Slots :
       Quiet /\ FreeSlot(c) /\ logout(c) /\ provider' = ProviderAwaits
  \/ \E c \in Slots, ok \in oks : LogoutRemoved(c, ok) /\ UNCHANGED provider

\* The client clears the cache, while fewer than budget requests have been
\* sent; clearCache runs.
ClearCache(outcomes, oks, budget) ==
  \/ \E c \in Slots : Quiet /\ nreq < budget /\ FreeSlot(c) /\ clearCache(c)
       /\ UNCHANGED provider
  \/ \E c \in Slots, ok \in oks : ClearCacheRemoved(c, ok)
       /\ UNCHANGED provider
  \/ \E c \in Slots, outcome \in outcomes : ClearCacheLiveResponse(c, outcome)
       /\ UNCHANGED provider
  \/ \E c \in Slots, outcome \in outcomes : ClearCacheVodResponse(c, outcome)
       /\ UNCHANGED provider
  \/ \E c \in Slots, outcome \in outcomes : ClearCacheSeriesResponse(c, outcome)
       /\ UNCHANGED provider

\* The client that does not await: it calls a catalog operation while other
\* calls are in flight; the calls send no more than budget requests.
CallCatalogOverlapping(categoryIds, budget) ==
  \/ \E c \in Slots, category_id \in categoryIds :
       /\ StartupOver /\ FreeSlot(c)
       /\ getVodStreams(c, category_id) /\ nreq' <= budget
       /\ UNCHANGED provider
  \/ \E c \in Slots, category_id \in categoryIds :
       /\ StartupOver /\ FreeSlot(c)
       /\ getSeries(c, category_id) /\ nreq' <= budget
       /\ UNCHANGED provider
  \/ \E c \in Slots :
       StartupOver /\ FreeSlot(c) /\ getVodCategories(c) /\ nreq' <= budget
       /\ UNCHANGED provider
  \/ \E c \in Slots :
       StartupOver /\ FreeSlot(c) /\ getSeriesCategories(c) /\ nreq' <= budget
       /\ UNCHANGED provider

\* The client logs out while other calls are in flight; the logout runs.
LogoutOverlapping(oks) ==
  \/ \E c \in Slots :
       StartupOver /\ FreeSlot(c) /\ logout(c) /\ provider' = ProviderAwaits
  \/ \E c \in Slots, ok \in oks : LogoutRemoved(c, ok) /\ UNCHANGED provider

\* The client clears the cache while other calls are in flight, while fewer
\* than budget requests have been sent; clearCache runs.
ClearCacheOverlapping(outcomes, oks, budget) ==
  \/ \E c \in Slots :
       StartupOver /\ nreq < budget /\ FreeSlot(c) /\ clearCache(c)
       /\ UNCHANGED provider
  \/ \E c \in Slots, ok \in oks : ClearCacheRemoved(c, ok)
       /\ UNCHANGED provider
  \/ \E c \in Slots, outcome \in outcomes : ClearCacheLiveResponse(c, outcome)
       /\ UNCHANGED provider
  \/ \E c \in Slots, outcome \in outcomes : ClearCacheVodResponse(c, outcome)
       /\ UNCHANGED provider
  \/ \E c \in Slots, outcome \in outcomes : ClearCacheSeriesResponse(c, outcome)
       /\ UNCHANGED provider

\* No call is in flight; the reads of the constructor may be.
NoCall == \A c \in Slots : calls[c] = IdleCall

\* The client calls a catalog operation as soon as the screen is mounted,
\* whether the reads of the constructor are over or not.
CallCatalogAtStartup(categoryIds, budget) ==
  \/ \E c \in Slots, category_id \in categoryIds :
       NoCall /\ FreeSlot(c) /\ getVodStreams(c, category_id) /\ nreq' <= budget
       /\ UNCHANGED provider
  \/ \E c \in Slots, category_id \in categoryIds :
       NoCall /\ FreeSlot(c) /\ getSeries(c, category_id) /\ nreq' <= budget
       /\ UNCHANGED provider
  \/ \E c \in Slots :
       NoCall /\ FreeSlot(c) /\ getVodCategories(c) /\ nreq' <= budget
       /\ UNCHANGED provider
  \/ \E c \in Slots :
       NoCall /\ FreeSlot(c) /\ getSeriesCategories(c) /\ nreq' <= budget
       /\ UNCHANGED provider

\* The client clears the cache, whether the reads of the constructor are
\* over or not; clearCache runs.
ClearCacheAtStartup(outcomes, oks, budget) ==
  \/ \E c \in Slots : NoCall /\ nreq < budget /\ FreeSlot(c) /\ clearCache(c)
       /\ UNCHANGED provider
  \/ \E c \in Slots, ok \in oks : ClearCacheRemoved(c, ok)
       /\ UNCHANGED provider
  \/ \E c \in Slots, outcome \in outcomes : ClearCacheLiveResponse(c, outcome)
       /\ UNCHANGED provider
  \/ \E c \in Slots, outcome \in outcomes : ClearCacheVodResponse(c, outcome)
       /\ UNCHANGED provider
  \/ \E c \in Slots, outcome \in outcomes : ClearCacheSeriesResponse(c, outcome)
       /\ UNCHANGED provider

\* The reads of the constructor complete or, where they can, fail.
Startup(oks) ==
  \/ \E ok \in oks : loadCredentials(ok)
       /\ UNCHANGED provider
  \/ \E ok \in oks : loadCaches(ok)
       /\ UNCHANGED provider

\* The effect of AuthProvider runs.
CheckLoginStatus == checkLoginStatus

\* The process is restarted between two operations; AuthProvider is
\* rendered anew.
Restart == Quiet /\ NewXtreamCodesApi /\ provider' = ProviderMounting

\* Every operation, every outcome.
Next ==
  \/ Startup(BOOLEAN)
  \/ Login(Users, BOOLEAN)
  \/ CallCatalog(CategoryIds, MaxRequests)
  \/ RunCatalog(Outcomes)
  \/ RunSave(BOOLEAN)
  \/ Logout(BOOLEAN)
  \/ ClearCache(Outcomes, BOOLEAN, MaxRequests)
  \/ Restart
  \/ Tick

Spec == Init /\ [][Next]_vars

\* A user fetches catalogs of three categories; the writes of the saves can
\* fail.
NextCatalog ==
  \/ Startup({TRUE})
  \/ FirstLogin({"alice"}, {TRUE})
  \/ CallCatalog(CategoryIds, MaxRequests)
  \/ RunCatalog({"ok", "rejected"})
  \/ RunSave(BOOLEAN)

SpecCatalog == Init /\ [][NextCatalog]_vars

\* A user fetches catalogs while time passes.
NextExpiry ==
  \/ Startup({TRUE})
  \/ FirstLogin({"alice"}, {TRUE})
  \/ CallCatalog({UNDEFINED, "5"}, MaxExpiryRequests)
  \/ RunCatalog({"ok", "rejected"})
  \/ RunSave({TRUE})
  \/ Tick

SpecExpiry == Init /\ [][NextExpiry]_vars

\* A user fetches catalogs while time passes and the process is restarted;
\* the reads of the constructor can fail.
NextRestart ==
  \/ Startup(BOOLEAN)
  \/ FirstLogin({"alice"}, {TRUE})
  \/ CallCatalog({UNDEFINED, "5"}, MaxRestartRequests)
  \/ RunCatalog({"ok"})
  \/ RunSave({TRUE})
  \/ Restart
  \/ Tick

SpecRestart == Init /\ [][NextRestart]_vars

\* A user fetches catalogs, logs out and logs in again; the removals of
\* logout() can fail.
NextLogout ==
  \/ Startup({TRUE})
  \/ FirstLogin({"alice"}, {TRUE})
  \/ CallCatalog({UNDEFINED}, MaxLogoutRequests)
  \/ RunCatalog({"ok"})
  \/ RunSave({TRUE})
  \/ Logout(BOOLEAN)

SpecLogout == Init /\ [][NextLogout]_vars

\* A user fetches catalogs and clears the cache; the removals and the
\* reloads of clearCache() can fail.
NextClearCache ==
  \/ Startup({TRUE})
  \/ FirstLogin({"alice"}, {TRUE})
  \/ CallCatalog({UNDEFINED}, MaxClearRequests)
  \/ RunCatalog({"ok"})
  \/ RunSave({TRUE})
  \/ ClearCache({"ok", "rejected"}, BOOLEAN, MaxClearRequests)

SpecClearCache == Init /\ [][NextClearCache]_vars

\* A user fetches catalogs, clears the cache and logs out; the removals of
\* clearCache() and of logout() can fail.
NextInvalidate ==
  \/ Startup({TRUE})
  \/ FirstLogin({"alice"}, {TRUE})
  \/ CallCatalog({UNDEFINED}, MaxInvalidateRequests)
  \/ RunCatalog({"ok"})
  \/ RunSave({TRUE})
  \/ Logout(BOOLEAN)
  \/ ClearCache({"ok"}, BOOLEAN, MaxInvalidateRequests)

SpecInvalidate == Init /\ [][NextInvalidate]_vars

\* A user fetches catalogs and logs out while fetches are in flight; then
\* a user logs in.
NextLogoutRace ==
  \/ Startup({TRUE})
  \/ FirstLogin(Users, {TRUE})
  \/ CallCatalogOverlapping({UNDEFINED}, MaxRaceRequests)
  \/ RunCatalog({"ok"})
  \/ RunSave({TRUE})
  \/ LogoutOverlapping({TRUE})

SpecLogoutRace == Init /\ [][NextLogoutRace]_vars

\* A user fetches catalogs; the service can answer with a payload that is
\* no array.
NextMalformed ==
  \/ Startup({TRUE})
  \/ FirstLogin({"alice"}, {TRUE})
  \/ CallCatalog({UNDEFINED, "5"}, MaxMalformedRequests)
  \/ RunCatalog(Outcomes)
  \/ RunSave({TRUE})

SpecMalformed == Init /\ [][NextMalformed]_vars

\* A user fetches catalogs and clears the cache while fetches are in
\* flight; no request and no operation of the store fails.
NextClearRace ==
  \/ Startup({TRUE})
  \/ FirstLogin({"alice"}, {TRUE})
  \/ CallCatalogOverlapping({UNDEFINED}, MaxClearRaceRequests)
  \/ RunCatalog({"ok"})
  \/ RunSave({TRUE})
  \/ ClearCacheOverlapping({"ok"}, {TRUE}, MaxClearRaceRequests)

SpecClearRace == Init /\ [][NextClearRace]_vars

\* A user fetches catalogs, unfiltered and for category 5, without waiting
\* for the calls in flight; nothing fails.
NextOverlap ==
  \/ Startup({TRUE})
  \/ FirstLogin({"alice"}, {TRUE})
  \/ CallCatalogOverlapping({UNDEFINED, "5"}, MaxOverlapRequests)
  \/ RunCatalog({"ok"})
  \/ RunSave({TRUE})

SpecOverlap == Init /\ [][NextOverlap]_vars

\* A user fetches unfiltered catalogs, the process restarts and time
\* passes; nothing fails.
NextStale ==
  \/ Startup({TRUE})
  \/ FirstLogin({"alice"}, {TRUE})
  \/ CallCatalog({UNDEFINED}, MaxStaleRequests)
  \/ RunCatalog({"ok"})
  \/ RunSave({TRUE})
  \/ Restart
  \/ Tick

SpecStale == Init /\ [][NextStale]_vars

\* Users log in one after the other without logging out, and fetch
\* unfiltered catalogs; no operation of the store fails.
NextRelogin ==
  \/ Startup({TRUE})
  \/ Login(Users, {TRUE})
  \/ CallCatalog({UNDEFINED}, MaxReloginRequests)
  \/ RunCatalog({"ok"})
  \/ RunSave({TRUE})

SpecRelogin == Init /\ [][NextRelogin]_vars

\* A user logs in and fetches unfiltered catalogs; the process restarts,
\* and the user fetches and clears the cache without waiting for the reads
\* of the constructor; nothing fails.
NextStartupRace ==
  \/ Startup({TRUE})
  \/ FirstLogin({"alice"}, {TRUE})
  \/ CallCatalogAtStartup({UNDEFINED}, MaxStartupRaceRequests)
  \/ RunCatalog({"ok"})
  \/ RunSave({TRUE})
  \/ ClearCacheAtStartup({"ok"}, {TRUE}, MaxStartupRaceRequests)
  \/ Restart

SpecStartupRace == Init /\ [][NextStartupRace]_vars

\* AuthProvider checks the login status when it is rendered; a user logs
\* in, fetches unfiltered catalogs and logs out, and the process restarts;
\* the removals of logout() can fail.
NextAuthProvider ==
  \/ Startup({TRUE})
  \/ CheckLoginStatus
  \/ FirstLogin({"alice"}, {TRUE})
  \/ CallCatalog({UNDEFINED}, MaxProviderRequests)
  \/ RunCatalog({"ok"})
  \/ RunSave({TRUE})
  \/ Logout(BOOLEAN)
  \/ Restart

SpecAuthProvider == Init /\ [][NextAuthProvider]_vars

----------------------------------------------------------------------------
(* Properties                                                              *)

\* The step in which the client calls op in slot c.
Calls(c, op) == calls[c] = IdleCall /\ calls'[c].op = op

\* The step in which the request of op in slot c comes back and op settles.
Answers(c, op) ==
  calls[c].op = op /\ calls[c].pc = "request" /\ calls'[c].pc = "done"

\* The cache field of op is set, and for a stream operation it was fetched
\* under category_id.
EntryFor(op, category_id) ==
  /\ cache[FieldOf(op)] # NULL
  /\ op \in StreamOps => cache[FieldOf(op)].categoryId = category_id

\* The age of the entry of op.
Age(op) == now - cache[FieldOf(op)].timestamp

\* A call that settled without sending a request, with the cached data.
ServedFromCache(c) ==
  /\ calls[c].op \in FetchOps
  /\ calls[c].pc = "done"
  /\ calls[c].sent = 0
  /\ cache[FieldOf(calls[c].op)] # NULL
  /\ calls[c].result = Resolved(cache[FieldOf(calls[c].op)].data)

\* C1: Cache hit skips fetch.  A fetch that succeeds leaves its data in the
\* cache field; a later call of the same operation with the same filter,
\* made with a session while the entry is younger than the expiry time,
\* sends no request and returns that data.
C1_HitSkipsFetch ==
  [][\A c \in Slots, op \in FetchOps :
       /\ (Answers(c, op) /\ calls'[c].result.state = "resolved")
            => /\ cache'[FieldOf(op)].data = calls'[c].result.value
               /\ cache'[FieldOf(op)].timestamp = now
       /\ ( /\ Calls(c, op)
            /\ isLoggedIn
            /\ EntryFor(op, calls'[c].arg)
            /\ Age(op) < CACHE_EXPIRY_TIME )
            => /\ nreq' = nreq
               /\ calls'[c].pc = "done"
               /\ calls'[c].sent = 0
               /\ calls'[c].result = Resolved(cache[FieldOf(op)].data)
     ]_vars

\* A hit on the VOD streams of category 5, one millisecond before expiry.
C1_Witness ==
  \E c \in Slots :
    /\ ServedFromCache(c)
    /\ calls[c].op = "getVodStreams"
    /\ calls[c].arg = "5"
    /\ cache["vodCache"].timestamp = 0
    /\ now = CACHE_EXPIRY_TIME - 1

\* C2: Filter mismatch forces refetch.  A stream call whose filter differs
\* from the filter of the unexpired entry sends a request for its own
\* filter, and when the request succeeds the one entry of the type carries
\* that filter and that data.
C2_FilterMismatchRefetches ==
  [][\A c \in Slots, op \in StreamOps :
       /\ ( /\ Calls(c, op)
            /\ isLoggedIn
            /\ cache[FieldOf(op)] # NULL
            /\ Age(op) < CACHE_EXPIRY_TIME
            /\ cache[FieldOf(op)].categoryId # calls'[c].arg )
            => /\ nreq' = nreq + 1
               /\ calls'[c].pc = "request"
               /\ calls'[c].req.category_id = calls'[c].arg
               /\ calls'[c].req.id = nreq + 1
       /\ (Answers(c, op) /\ calls'[c].result.state = "resolved")
            => /\ cache'[FieldOf(op)].categoryId = calls[c].arg
               /\ cache'[FieldOf(op)].data = calls'[c].result.value
               /\ calls'[c].result.value.id = calls[c].req.id
     ]_vars

\* After fetches for 5 and then for 6, a call for 5 sends the third request.
C2_Witness ==
  \E c \in Slots :
    /\ calls[c].op = "getVodStreams"
    /\ calls[c].pc = "request"
    /\ calls[c].arg = "5"
    /\ calls[c].req.id = 3
    /\ cache["vodCache"] # NULL
    /\ cache["vodCache"].categoryId = "6"
    /\ cache["vodCache"].data.id = 2
    /\ history.persisted[VOD_CACHE_KEY] # NULL
    /\ history.persisted[VOD_CACHE_KEY].categoryId = "5"

\* C3: TTL expiry forces refetch.  A call made with a session that finds an
\* entry with its filter sends a request exactly when the entry is at least
\* CACHE_EXPIRY_TIME old.
C3_ExpiryForcesRefetch ==
  [][\A c \in Slots, op \in FetchOps :
       (Calls(c, op) /\ isLoggedIn /\ EntryFor(op, calls'[c].arg))
         => ( Age(op) >= CACHE_EXPIRY_TIME
                <=> (nreq' = nreq + 1 /\ calls'[c].pc = "request") )
     ]_vars

\* A request sent although the entry has the filter: it is exactly
\* CACHE_EXPIRY_TIME old.
C3_Witness ==
  \E c \in Slots :
    /\ calls[c].op \in FetchOps
    /\ calls[c].pc = "request"
    /\ EntryFor(calls[c].op, calls[c].arg)
    /\ Age(calls[c].op) = CACHE_EXPIRY_TIME

\* C7: Fetch failure leaves the cache untouched.  Sending the request
\* changes neither the cache fields nor the store; when the request comes
\* back the call either resolves with the data of that request or rejects,
\* and when it rejects the cache fields, the store and the writes in flight
\* are what they were.
C7_FailureLeavesCache ==
  [][\A c \in Slots, op \in FetchOps :
       /\ (Calls(c, op) /\ calls'[c].pc = "request")
            => cache' = cache /\ store' = store /\ storeQ' = storeQ
       /\ Answers(c, op)
            => \/ /\ calls'[c].result.state = "resolved"
                  /\ calls'[c].result.value.id = calls[c].req.id
               \/ /\ calls'[c].result.state = "rejected"
                  /\ cache' = cache
                  /\ store' = store
                  /\ storeQ' = storeQ
     ]_vars

\* A call rejected with the network's error while its expired entry, with
\* the filter asked for, is still in the cache field.
C7_Witness ==
  \E c \in Slots :
    /\ calls[c].op \in FetchOps
    /\ calls[c].pc = "done"
    /\ calls[c].result = Rejected("Network Error")
    /\ EntryFor(calls[c].op, calls[c].arg)
    /\ Age(calls[c].op) >= CACHE_EXPIRY_TIME
    /\ store[CacheKey(FieldOf(calls[c].op))] # NULL

\* The write of a save fails: the text of the save is not in the store.
SaveFails ==
  /\ storeQ # << >>
  /\ Head(storeQ).owner = "save"
  /\ storeQ' = Tail(storeQ)
  /\ store'[Head(storeQ).key] # Head(storeQ).value

\* C10: Persistence write failure is best-effort.  A fetch whose request
\* succeeds settles with the fetched data and sets the cache field in the
\* step that issues the write; a write that fails changes neither a call
\* nor a cache field.
C10_WriteFailureIsBestEffort ==
  [][ /\ \A c \in Slots, op \in FetchOps :
           (Answers(c, op) /\ calls'[c].result.state = "resolved")
             => /\ calls'[c].result.value.id = calls[c].req.id
                /\ cache'[FieldOf(op)] =
                     CacheObject(calls'[c].result.value, now,
                                 IF op \in StreamOps THEN calls[c].arg ELSE UNDEFINED)
                /\ Len(storeQ') = Len(storeQ) + 1
      /\ SaveFails => (calls' = calls /\ cache' = cache)
    ]_vars

\* A hit on an entry whose write failed: nothing is stored under its key
\* and no write is in flight.
C10_Witness ==
  \E c \in Slots :
    /\ ServedFromCache(c)
    /\ store[CacheKey(FieldOf(calls[c].op))] = NULL
    /\ storeQ = << >>

\* loadCaches() assigns the cache fields in this step.
Restores == loader.caches = "reading" /\ loader'.caches = "loaded"

\* The place of a cache field in LoadOrder.
LoadIndex(field) == CHOOSE i \in 1..Len(LoadOrder) : LoadOrder[i] = field

\* The field holds what loadCaches() read for it.
Restored(field) ==
  /\ loader.caches = "loaded"
  /\ loader.got[LoadIndex(field)] # NULL
  /\ cache[field] # NULL
  /\ cache[field] = history.persisted[CacheKey(field)]
  /\ cache[field].data.id < nreq + 1

\* C4: Restore round-trip.  When loadCaches() of a new XtreamCodesApi has
\* read the four keys and assigns, every cache field becomes the entry,
\* with its data, timestamp and categoryId, that a save wrote under the
\* field's key, and stays null where nothing is stored; a call that matches
\* a restored entry younger than the expiry time sends no request and
\* returns the persisted data.
C4_RestoreRoundTrip ==
  [][ /\ Restores
           => \A f \in CacheFields : cache'[f] = history.persisted[CacheKey(f)]
      /\ \A c \in Slots, op \in FetchOps :
           ( /\ Calls(c, op)
             /\ isLoggedIn
             /\ Restored(FieldOf(op))
             /\ EntryFor(op, calls'[c].arg)
             /\ Age(op) < CACHE_EXPIRY_TIME )
             => /\ nreq' = nreq
                /\ calls'[c].result =
                     Resolved(history.persisted[CacheKey(FieldOf(op))].data)
    ]_vars

\* After a restart, the VOD streams of category 5 are served from the
\* restored entry, which is older than the process.
C4_Witness ==
  \E c \in Slots :
    /\ ServedFromCache(c)
    /\ calls[c].op = "getVodStreams"
    /\ calls[c].arg = "5"
    /\ Restored("vodCache")
    /\ cache["vodCache"].categoryId = "5"
    /\ cache["vodCache"].timestamp < now
    /\ cache["vodCategoriesCache"] = NULL

\* C5: Logout clears everything.  When logout() has resolved, the four
\* cache fields are null and the four cache keys are absent from the store;
\* no cache field ever holds data of a request sent before the last clear,
\* and a call that finds its field null sends a request.
C5_LogoutClearsEverything ==
  /\ [](\A c \in Slots :
          ( /\ calls[c].op = "logout"
            /\ calls[c].pc = "done"
            /\ calls[c].result.state = "resolved" )
            => \A f \in CacheFields :
                 cache[f] = NULL /\ store[CacheKey(f)] = NULL)
  /\ [](\A f \in CacheFields :
          cache[f] # NULL => cache[f].data.id > history.clearedAt)
  /\ [][\A c \in Slots, op \in FetchOps :
          (Calls(c, op) /\ isLoggedIn /\ cache[FieldOf(op)] = NULL)
            => /\ nreq' = nreq + 1
               /\ calls'[c].pc = "request"
               /\ calls'[c].req.id = nreq + 1
       ]_vars

\* All four fields were set when logout() cleared them; after a new login
\* the fifth request is under way and no cache key is in the store.
C5_Witness ==
  \E c \in Slots :
    /\ calls[c].op \in FetchOps
    /\ calls[c].pc = "request"
    /\ calls[c].req.id = 5
    /\ history.had = CacheFields
    /\ history.clearedAt = 4
    /\ \A f \in CacheFields : cache[f] = NULL /\ store[CacheKey(f)] = NULL
    /\ store[AUTH_STORAGE_KEY] # NULL

\* clearCache() in slot c has settled after its four removals, with a
\* session.
ClearCacheReloaded(c) ==
  /\ calls[c].op = "clearCache"
  /\ calls[c].pc = "done"
  /\ calls[c].step > Len(ClearCacheKeys)
  /\ isLoggedIn

\* The reloads of clearCache(), in its order.
ReloadOps == << "getLiveStreams", "getVodStreams", "getSeries" >>

\* C6: clearCache partial-failure isolation.  With a session, after its
\* removals clearCache() sends the request of each of its reloads whichever
\* of them are rejected, resolves, and every cached stream type whose reload
\* resolved holds the reloaded data in its cache field.
C6_ReloadFailuresAreIsolated ==
  \A c \in Slots :
    ClearCacheReloaded(c)
      => /\ calls[c].result = Resolved(NULL)
         /\ calls[c].sent = Len(ReloadOps)
         /\ Len(calls[c].rewarm) = Len(ReloadOps)
         /\ \A i \in 1..Len(ReloadOps) :
              /\ calls[c].rewarm[i].op = ReloadOps[i]
              /\ calls[c].rewarm[i].outcome \in {"resolved", "rejected"}
              /\ ( /\ calls[c].rewarm[i].outcome = "resolved"
                   /\ ReloadOps[i] \in StreamOps )
                   => /\ cache[FieldOf(ReloadOps[i])] # NULL
                      /\ cache[FieldOf(ReloadOps[i])].data = calls[c].rewarm[i].data

\* The reloads of the live streams and of the series were rejected, the
\* reload of the VOD streams resolved and its data is in vodCache.
C6_Witness ==
  \E c \in Slots :
    /\ ClearCacheReloaded(c)
    /\ calls[c].result = Resolved(NULL)
    /\ calls[c].rewarm[1].outcome = "rejected"
    /\ calls[c].rewarm[2].outcome = "resolved"
    /\ calls[c].rewarm[3].outcome = "rejected"
    /\ cache["vodCache"] # NULL
    /\ cache["vodCache"].data = calls[c].rewarm[2].data
    /\ cache["seriesCache"] = NULL

\* clearCache() in slot c has resolved with a session and every request it
\* sent succeeded.
ClearCacheSucceeded(c) ==
  /\ ClearCacheReloaded(c)
  /\ calls[c].result.state = "resolved"
  /\ \A i \in 1..Len(calls[c].rewarm) : calls[c].rewarm[i].outcome = "resolved"

\* The field holds an entry fetched after the last clear.
Fresh(field) ==
  /\ cache[field] # NULL
  /\ cache[field].data.id > history.clearedAt

\* C8 as the specification states it: when clearCache() resolves with a
\* session and every request succeeded, each of the four cache fields holds
\* an entry fetched after the clear.
C8_RewarmsAllFour ==
  \A c \in Slots :
    ClearCacheSucceeded(c) => \A f \in CacheFields : Fresh(f)

\* C8: clearCache reloads the stream catalogs.  When clearCache() resolves
\* with a session and every request succeeded, it has sent the requests of
\* the live streams, the VOD streams and the series, vodCache and
\* seriesCache hold the unfiltered entries fetched after the clear, and
\* vodCategoriesCache and seriesCategoriesCache are null.
C8_RewarmsStreams ==
  \A c \in Slots :
    ClearCacheSucceeded(c)
      => /\ calls[c].sent = Len(ReloadOps)
         /\ \A i \in 1..Len(ReloadOps) : calls[c].rewarm[i].op = ReloadOps[i]
         /\ \A f \in {"vodCache", "seriesCache"} :
              Fresh(f) /\ cache[f].categoryId = UNDEFINED
         /\ cache["vodCache"].data = calls[c].rewarm[2].data
         /\ cache["seriesCache"].data = calls[c].rewarm[3].data
         /\ cache["vodCategoriesCache"] = NULL
         /\ cache["seriesCategoriesCache"] = NULL

\* All four fields were set when clearCache() cleared them, and its three
\* requests succeeded.
C8_Witness ==
  \E c \in Slots :
    /\ ClearCacheSucceeded(c)
    /\ history.had = CacheFields
    /\ Len(calls[c].rewarm) = Len(ReloadOps)
    /\ Fresh("vodCache")
    /\ Fresh("seriesCache")

\* C9: Session gating.  A catalog operation called while the credentials or
\* the auth data are null rejects with the not-authenticated error before
\* anything else: it sends no request, returns no cached data and leaves
\* the cache fields, the store and the writes in flight as they were.
C9_SessionGating ==
  [][\A c \in Slots, op \in FetchOps :
       (Calls(c, op) /\ (credentials = NULL \/ authData = NULL))
         => /\ calls'[c].pc = "done"
            /\ calls'[c].result = Rejected("Not authenticated")
            /\ calls'[c].sent = 0
            /\ nreq' = nreq
            /\ cache' = cache
            /\ store' = store
            /\ storeQ' = storeQ
     ]_vars

\* A call rejected for want of a session although its cache field holds an
\* entry it would have been served from.
C9_Witness ==
  \E c \in Slots :
    /\ calls[c].op \in FetchOps
    /\ calls[c].pc = "done"
    /\ calls[c].result = Rejected("Not authenticated")
    /\ credentials = NULL
    /\ CacheHit(calls[c].op, calls[c].arg)


\* The removals logout() and clearCache() make of the session key and the
\* cache keys.
RemovalsOf(op) == IF op = "logout" THEN Len(LogoutKeys) ELSE Len(ClearCacheKeys)

\* C11: Persistence failure during invalidation is never propagated.  A
\* logout() or a clearCache() that has settled has resolved, has cleared
\* the four cache fields, has issued the removal of every one of its keys
\* and, for clearCache() with a session, has run its reloads.
C11_RemovalFailureNotPropagated ==
  \A c \in Slots :
    (calls[c].op \in {"logout", "clearCache"} /\ calls[c].pc = "done")
      => /\ calls[c].result.state = "resolved"
         /\ calls[c].step >= RemovalsOf(calls[c].op)
         /\ (calls[c].op = "logout" => \A f \in CacheFields : cache[f] = NULL)
         /\ (calls[c].op = "clearCache" /\ isLoggedIn)
              => Len(calls[c].rewarm) = Len(ReloadOps)


\* loadCaches() is over in this step: it has assigned, or a read has failed.
LoadCachesEnds == loader.caches = "reading" /\ loader'.caches # "reading"

\* C12: Startup restore is independent per key.  When loadCaches() is over,
\* every key it read a well-formed text from is the entry of its cache
\* field, whatever became of the reads of the other keys.
C12_RestoreIsIndependent ==
  [][LoadCachesEnds
       => \A i \in 1..Len(loader.got) :
            (loader.got[i] # NULL /\ Parses(loader.got[i]))
              => cache'[LoadOrder[i]] = ParseCache(loader.got[i])
    ]_vars


\* No logout() is under way.
NoLogoutInFlight ==
  \A c \in Slots : calls[c].op = "logout" => calls[c].pc = "done"

\* C13: No stale catalog under a new session.  While a session is held and
\* no logout() is under way, no cache field and no cache key holds data of a
\* request sent before the last logout() began, and no call has been served
\* such data from the cache.
C13_NoStaleCatalogAfterLogout ==
  (isLoggedIn /\ NoLogoutInFlight)
    => /\ \A f \in CacheFields :
            /\ cache[f] # NULL => cache[f].data.id > history.clearedAt
            /\ history.persisted[CacheKey(f)] # NULL
                 => history.persisted[CacheKey(f)].data.id > history.clearedAt
       /\ \A c \in Slots :
            ( /\ calls[c].op \in FetchOps
              /\ calls[c].pc = "done"
              /\ calls[c].sent = 0
              /\ calls[c].result.state = "resolved" )
              => calls[c].result.value.id > history.clearedAt


\* C14: Malformed payloads never poison the cache.  No cache field and no
\* cache key holds a payload that is no array, and no catalog call resolves
\* with one.
C14_MalformedNeverStored ==
  /\ \A f \in CacheFields :
       /\ cache[f] # NULL => cache[f].data.isArray
       /\ history.persisted[CacheKey(f)] # NULL
            => history.persisted[CacheKey(f)].data.isArray
  /\ \A c \in Slots :
       ( /\ calls[c].op \in FetchOps
         /\ calls[c].pc = "done"
         /\ calls[c].result.state = "resolved" )
         => calls[c].result.value.isArray


\* A fetch in slot c that sent its request and resolved.
Fetched(c) ==
  /\ calls[c].op \in FetchOps
  /\ calls[c].pc = "done"
  /\ calls[c].sent = 1
  /\ calls[c].result.state = "resolved"

\* C15 as the specification states it: when a fetch that sent its request
\* has returned, the key of its type holds the entry with the returned data.
C15_PersistedAtReturn ==
  \A c \in Slots :
    Fetched(c)
      => /\ history.persisted[CacheKey(FieldOf(calls[c].op))] # NULL
         /\ history.persisted[CacheKey(FieldOf(calls[c].op))].data
              = calls[c].result.value

\* The write of a save completes.
SaveCompletes ==
  /\ storeQ # << >>
  /\ Head(storeQ).owner = "save"
  /\ storeQ' = Tail(storeQ)
  /\ store'[Head(storeQ).key] = Head(storeQ).value

\* C15: Write issued before return.  The step in which a successful request
\* is answered replaces the cache field, issues the write of that entry
\* under the key of the type and settles the call, in this order and with
\* the store still as it was; the key holds the entry, with its data,
\* timestamp and categoryId, from the step in which the write completes.
C15_WriteIssuedAtReturn ==
  [][ /\ \A c \in Slots, op \in FetchOps :
           (Answers(c, op) /\ calls'[c].result.state = "resolved")
             => /\ cache'[FieldOf(op)].data = calls'[c].result.value
                /\ store' = store
                /\ storeQ' = Append(storeQ,
                     setItem(CacheKey(FieldOf(op)),
                             StringifyCache(cache'[FieldOf(op)]),
                             cache'[FieldOf(op)], "save", 0))
      /\ SaveCompletes
           => /\ ParseCache(store'[Head(storeQ).key]) = Head(storeQ).object
              /\ history'.persisted[Head(storeQ).key] = Head(storeQ).object
    ]_vars

\* getVodStreams() has returned its data while the write of the entry is
\* still in flight and nothing is under the key.
C15_Witness ==
  \E c \in Slots :
    /\ Fetched(c)
    /\ calls[c].op = "getVodStreams"
    /\ cache["vodCache"].data = calls[c].result.value
    /\ store[VOD_CACHE_KEY] = NULL
    /\ storeQ # << >>
    /\ Head(storeQ).key = VOD_CACHE_KEY
    /\ Head(storeQ).object = cache["vodCache"]


\* Nothing is in flight: the startup restore is over, every call is idle or
\* has settled, and no operation of the store is pending.
Quiescent ==
  /\ StartupOver
  /\ \A c \in Slots : calls[c].pc \in {"idle", "done"}
  /\ storeQ = << >>

\* C16: Mirror at quiescence.  When nothing is in flight, the key of every
\* cache field is absent exactly when the field is null, and otherwise its
\* text parses to the entry of the field.
C16_MirrorAtQuiescence ==
  Quiescent
    => \A f \in CacheFields :
         /\ cache[f] = NULL <=> store[CacheKey(f)] = NULL
         /\ (cache[f] # NULL /\ store[CacheKey(f)] # NULL)
              => ParseCache(store[CacheKey(f)]) = cache[f]


\* C17: No in-flight de-duplication, last write wins.  A call that finds no
\* valid entry while another call of the same operation is waiting for its
\* response sends a request of its own and leaves the other call alone; and
\* the response that comes back after the other call has been answered
\* leaves its own data and filter in the entry.
C17_NoDedupLastWriteWins ==
  [][\A c \in Slots, d \in Slots, op \in FetchOps :
       /\ ( /\ Calls(c, op)
            /\ c # d
            /\ isLoggedIn
            /\ ~CacheHit(op, calls'[c].arg)
            /\ calls[d].op = op
            /\ calls[d].pc = "request" )
            => /\ nreq' = nreq + 1
               /\ calls'[c].pc = "request"
               /\ calls'[c].req.id = nreq + 1
               /\ calls'[c].req.id # calls[d].req.id
               /\ calls'[d] = calls[d]
       /\ ( /\ Answers(c, op)
            /\ c # d
            /\ calls'[c].result.state = "resolved"
            /\ Fetched(d)
            /\ calls[d].op = op )
            => /\ cache'[FieldOf(op)].data = calls'[c].result.value
               /\ cache'[FieldOf(op)].data.id = calls[c].req.id
               /\ op \in StreamOps
                    => cache'[FieldOf(op)].categoryId = calls[c].arg
     ]_vars

\* Two calls of getVodStreams were made with no entry, for category 5 and
\* then unfiltered; the second was answered first, and the entry is that of
\* the first.
C17_Witness ==
  \E c \in Slots, d \in Slots :
    /\ c # d
    /\ Fetched(c) /\ calls[c].op = "getVodStreams"
    /\ Fetched(d) /\ calls[d].op = "getVodStreams"
    /\ calls[c].arg = "5" /\ calls[c].result.value.id = 1
    /\ calls[d].arg = UNDEFINED /\ calls[d].result.value.id = 2
    /\ cache["vodCache"].data.id = 1
    /\ cache["vodCache"].categoryId = "5"
    /\ storeQ = << >>
    /\ history.persisted[VOD_CACHE_KEY].data.id = 1


\* C18: clearCache without a session only resets.  A clearCache() called
\* with credentials or auth data missing nulls the four fields and sends
\* nothing; while it runs and after it has settled it has sent no request
\* and tried no reload and the four fields are null; it resolves exactly
\* when its four removals have completed, and then the four cache keys are
\* absent from the store.
C18_ClearCacheWithoutSessionOnlyResets ==
  /\ [][\A c \in Slots :
          (Calls(c, "clearCache") /\ ~isLoggedIn)
            => /\ nreq' = nreq
               /\ calls'[c].pc = "remove"
               /\ \A f \in CacheFields : cache'[f] = NULL
       ]_vars
  /\ [](\A c \in Slots :
          (calls[c].op = "clearCache" /\ ~isLoggedIn)
            => /\ calls[c].sent = 0
               /\ calls[c].req = NULL
               /\ calls[c].rewarm = << >>
               /\ \A f \in CacheFields : cache[f] = NULL
               /\ calls[c].pc \in {"remove", "done"}
               /\ (calls[c].pc = "done" /\ calls[c].step > Len(ClearCacheKeys))
                    => /\ calls[c].result = Resolved(NULL)
                       /\ \A f \in CacheFields : store[CacheKey(f)] = NULL
                       /\ \A f \in CacheFields :
                            history.persisted[CacheKey(f)] = NULL
               /\ (calls[c].pc = "done" /\ calls[c].step <= Len(ClearCacheKeys))
                    => calls[c].result.state = "rejected")

\* After fetches and a logout() that failed to remove the first key,
\* clearCache() was called without a session and has resolved.
C18_Witness ==
  \E c \in Slots :
    /\ calls[c].op = "clearCache"
    /\ calls[c].pc = "done"
    /\ calls[c].result.state = "resolved"
    /\ ~isLoggedIn
    /\ nreq >= 1
    /\ store[AUTH_STORAGE_KEY] # NULL


\* C19: Category-type catalogs have no filter dimension.  A call of
\* getVodCategories or getSeriesCategories made with a session returns its
\* own entry without a request exactly when that entry is set and less
\* than CACHE_EXPIRY_TIME old, whatever the stream entries hold; and a step
\* of a call of one catalog operation leaves the entries of the other
\* operations as they are.
C19_CategoriesHaveNoFilter ==
  [][\A c \in Slots :
       /\ \A op \in CategoryOps :
            (Calls(c, op) /\ isLoggedIn)
              => IF cache[FieldOf(op)] # NULL /\ Age(op) < CACHE_EXPIRY_TIME
                   THEN /\ nreq' = nreq
                        /\ calls'[c].sent = 0
                        /\ calls'[c].result = Resolved(cache[FieldOf(op)].data)
                   ELSE /\ nreq' = nreq + 1
                        /\ calls'[c].pc = "request"
       /\ \A op \in FetchOps :
            (calls'[c].op = op /\ calls'[c] # calls[c])
              => \A f \in CacheFields \ {FieldOf(op)} : cache'[f] = cache[f]
     ]_vars

\* getVodCategories() was answered from its entry although the VOD-streams
\* entry was fetched after it, for category 5.
C19_Witness ==
  \E c \in Slots :
    /\ calls[c].op = "getVodCategories"
    /\ ServedFromCache(c)
    /\ cache["vodCache"] # NULL
    /\ cache["vodCache"].categoryId = "5"
    /\ cache["vodCache"].data.id > cache["vodCategoriesCache"].data.id


\* C20: Exact filter match including absence.  A call of getVodStreams or
\* getSeries made with a session that finds an unexpired entry returns it
\* without a request exactly when the filter of the entry and the filter of
\* the call are the same category or are both absent; otherwise it sends a
\* request with its own filter.
C20_ExactFilterMatch ==
  [][\A c \in Slots, op \in StreamOps :
       ( /\ Calls(c, op)
         /\ isLoggedIn
         /\ cache[FieldOf(op)] # NULL
         /\ Age(op) < CACHE_EXPIRY_TIME )
         => IF cache[FieldOf(op)].categoryId = calls'[c].arg
              THEN /\ nreq' = nreq
                   /\ calls'[c].sent = 0
                   /\ calls'[c].result = Resolved(cache[FieldOf(op)].data)
              ELSE /\ nreq' = nreq + 1
                   /\ calls'[c].pc = "request"
                   /\ calls'[c].sent = 1
                   /\ calls'[c].req.category_id = calls'[c].arg
     ]_vars

\* The entry for category 5 was replaced by an unfiltered call, and a call
\* for category 5 against the unfiltered entry has sent the third request.
C20_Witness ==
  \E c \in Slots :
    /\ calls[c].op = "getVodStreams"
    /\ calls[c].pc = "request"
    /\ calls[c].arg = "5"
    /\ calls[c].req.id = 3
    /\ cache["vodCache"] # NULL
    /\ cache["vodCache"].categoryId = UNDEFINED
    /\ cache["vodCache"].data.id = 2
    /\ history.persisted[VOD_CACHE_KEY] # NULL
    /\ history.persisted[VOD_CACHE_KEY].categoryId = "5"
    /\ history.persisted[VOD_CACHE_KEY].data.id = 1


\* C21: Restored entries are still subject to the TTL.  loadCaches() gives
\* a restored entry the timestamp that was persisted; a call made with a
\* session that finds a restored entry at least CACHE_EXPIRY_TIME old does
\* not return it and sends a request, and when the request succeeds the
\* entry is replaced by the response, stamped with the present time.
C21_RestoredEntriesExpire ==
  [][ /\ Restores
           => \A f \in CacheFields :
                history.persisted[CacheKey(f)] # NULL
                  => /\ cache'[f] # NULL
                     /\ cache'[f].timestamp =
                          history.persisted[CacheKey(f)].timestamp
      /\ \A c \in Slots, op \in FetchOps :
           /\ ( /\ Calls(c, op)
                /\ isLoggedIn
                /\ Restored(FieldOf(op))
                /\ Age(op) >= CACHE_EXPIRY_TIME )
                => /\ nreq' = nreq + 1
                   /\ calls'[c].pc = "request"
                   /\ calls'[c].result = NULL
           /\ ( /\ Answers(c, op)
                /\ calls'[c].result.state = "resolved"
                /\ Restored(FieldOf(op)) )
                => /\ cache'[FieldOf(op)].data.id = calls[c].req.id
                   /\ cache'[FieldOf(op)].data = calls'[c].result.value
                   /\ cache'[FieldOf(op)].timestamp = now
    ]_vars

\* After a restart and a day, getVodStreams() has sent the second request
\* although the entry of the first was restored.
C21_Witness ==
  \E c \in Slots :
    /\ calls[c].op = "getVodStreams"
    /\ calls[c].pc = "request"
    /\ calls[c].req.id = 2
    /\ Restored("vodCache")
    /\ cache["vodCache"].data.id = 1
    /\ cache["vodCache"].timestamp = 0
    /\ now >= CACHE_EXPIRY_TIME


\* C22: Wholesale replacement.  When the request of a catalog call comes
\* back and the call resolves, the field of the operation holds the records
\* of that response and of no other (for the category operations each with
\* its category_type), the present time and the filter of the call, and it
\* is the data the call returns; every field is null or one entry.
C22_WholesaleReplacement ==
  /\ [][\A c \in Slots, op \in FetchOps :
          (Answers(c, op) /\ calls'[c].result.state = "resolved")
            => LET entry == cache'[FieldOf(op)] IN
               /\ entry # NULL
               /\ entry.data = calls'[c].result.value
               /\ [entry.data EXCEPT !.category_type = UNDEFINED]
                    = ResponseData(calls[c].req, entry.data.isArray)
               /\ op \in StreamOps => entry.data.category_type = UNDEFINED
               /\ entry.data.id = calls[c].req.id
               /\ entry.timestamp = now
               /\ entry.categoryId = calls[c].arg
       ]_vars
  /\ [](/\ DOMAIN cache = CacheFields
        /\ \A f \in CacheFields :
             \/ cache[f] = NULL
             \/ DOMAIN cache[f] = {"data", "timestamp", "categoryId"})

\* The entry of the first request, for category 5, was replaced a day later
\* by the unfiltered entry of the second, whose write is still pending.
C22_Witness ==
  \E c \in Slots :
    /\ Fetched(c)
    /\ calls[c].op = "getVodStreams"
    /\ calls[c].arg = UNDEFINED
    /\ cache["vodCache"] = CacheObject(calls[c].result.value, now, UNDEFINED)
    /\ cache["vodCache"].data.id = 2
    /\ now > 0
    /\ history.persisted[VOD_CACHE_KEY] # NULL
    /\ history.persisted[VOD_CACHE_KEY].data.id = 1
    /\ history.persisted[VOD_CACHE_KEY].categoryId = "5"
    /\ history.persisted[VOD_CACHE_KEY].timestamp = 0


\* C23: Catalog data belongs to the current credentials.  The data a
\* catalog call has returned was fetched with the credentials the object
\* holds.
C23_DataOfCurrentCredentials ==
  \A c \in Slots :
    ( /\ calls[c].op \in FetchOps
      /\ calls[c].pc = "done"
      /\ calls[c].result.state = "resolved" )
      => /\ isLoggedIn
         /\ calls[c].result.value.username = credentials.username


\* C24: Startup restore never overwrites fresher data.  When loadCaches()
\* assigns what it read, a field that a fetch has set keeps an entry that
\* is no older, and a field that is null stays null when clearCache() or
\* logout() has been called on this object.
C24_RestoreNeverOverwrites ==
  [][Restores
       => \A f \in CacheFields :
            /\ cache[f] # NULL
                 => /\ cache'[f] # NULL
                    /\ cache'[f].timestamp >= cache[f].timestamp
                    /\ cache'[f].data.id >= cache[f].data.id
            /\ ( /\ cache[f] = NULL
                 /\ \E c \in Slots : calls[c].op \in {"clearCache", "logout"} )
                 => cache'[f] = NULL
    ]_vars


\* C25: clearCache is a barrier for older fetches.  When nothing is in
\* flight, no cache field and no cache key holds data of a request sent
\* before the last clearCache() began.
C25_ClearCacheIsBarrier ==
  Quiescent
    => \A f \in CacheFields :
         /\ cache[f] # NULL => cache[f].data.id > history.clearedAt
         /\ store[CacheKey(f)] # NULL
              => ParseCache(store[CacheKey(f)]).data.id > history.clearedAt


\* The step in which a call of op in slot c is answered from the cache.
Hits(c, op) ==
  /\ Calls(c, op)
  /\ calls'[c].pc = "done"
  /\ calls'[c].sent = 0
  /\ calls'[c].result.state = "resolved"

\* C26: A cache hit changes nothing.  A call answered from the cache leaves
\* the four cache fields, the session, the store and the operations pending
\* on the store as they are; and a call that finds its entry at least
\* CACHE_EXPIRY_TIME after the entry was stamped sends a request, whatever
\* was read before.
C26_HitChangesNothing ==
  [][\A c \in Slots, op \in FetchOps :
       /\ Hits(c, op)
            => /\ cache' = cache
               /\ credentials' = credentials
               /\ authData' = authData
               /\ store' = store
               /\ storeQ' = storeQ
               /\ now' = now
       /\ ( /\ Calls(c, op)
            /\ isLoggedIn
            /\ cache[FieldOf(op)] # NULL
            /\ Age(op) >= CACHE_EXPIRY_TIME )
            => /\ ~Hits(c, op)
               /\ nreq' = nreq + 1
     ]_vars

\* getSeries() was answered from the cache one millisecond before the entry
\* expires; the entry and its key carry the time of the fetch.
C26_Witness ==
  \E c \in Slots :
    /\ calls[c].op = "getSeries"
    /\ ServedFromCache(c)
    /\ now = CACHE_EXPIRY_TIME - 1
    /\ cache["seriesCache"].timestamp = 0
    /\ storeQ = << >>
    /\ store[SERIES_CACHE_KEY] # NULL
    /\ ParseCache(store[SERIES_CACHE_KEY]) = cache["seriesCache"]


\* The step in which logout of AuthProvider, called in slot c from the
\* screens shown to a logged-in user, finishes.
ProviderLogoutFinishes(c) ==
  /\ calls[c].op = "logout"
  /\ calls[c].pc = "done"
  /\ calls'[c] = IdleCall
  /\ provider.mounted
  /\ provider.isLoggedIn

\* C27: UI login state agrees with the API session after logout.  When
\* logout of AuthProvider finishes, isLoading is false and isLoggedIn of the
\* provider is true exactly when the object holds credentials and auth
\* data.
C27_ProviderAgreesAfterLogout ==
  [][\A c \in Slots :
       ProviderLogoutFinishes(c)
         => /\ ~provider'.isLoading
            /\ provider'.isLoggedIn <=> (credentials' # NULL /\ authData' # NULL)
    ]_vars


\* C28: Startup login check sees the persisted session.  When the effect
\* of AuthProvider runs in a new process before any operation was called,
\* and the auth key holds a session, the provider finds the user logged in,
\* whether loadCredentials() has read the key or not.
C28_StartupCheckSeesSession ==
  [][( /\ provider = ProviderMounting
       /\ provider'.mounted
       /\ NoCall
       /\ store[AUTH_STORAGE_KEY] # NULL
       /\ Parses(store[AUTH_STORAGE_KEY]) )
       => provider'.isLoggedIn
    ]_vars


\* The operations pending on the store that touch the auth key.
AuthOps(q) == SelectSeq(q, LAMBDA o : o.key = AUTH_STORAGE_KEY)

\* C29: clearCache keeps the session.  No step of clearCache(), from its
\* call to its settling, resolved or rejected, changes the credentials or
\* the auth data of the object or the text under the auth key, or issues an
\* operation on that key.
C29_ClearCacheKeepsSession ==
  [][\A c \in Slots :
       (calls'[c].op = "clearCache" /\ calls'[c] # calls[c])
         => /\ credentials' = credentials
            /\ authData' = authData
            /\ store'[AUTH_STORAGE_KEY] = store[AUTH_STORAGE_KEY]
            /\ AuthOps(storeQ') = AuthOps(storeQ)
    ]_vars

\* clearCache() was called with a session and was rejected by a failing
\* removal, or resolved after a rejected reload; the session is held and
\* the auth key is in the store.
C29_Witness ==
  \E c \in Slots :
    /\ calls[c].op = "clearCache"
    /\ calls[c].pc = "done"
    /\ \/ calls[c].result.state = "rejected"
       \/ \E i \in 1..Len(calls[c].rewarm) :
            calls[c].rewarm[i].outcome = "rejected"
    /\ isLoggedIn
    /\ store[AUTH_STORAGE_KEY] = StringifyAuth(credentials, authData)


\* C30: A failed login changes nothing.  The call of login() changes
\* nothing but the call; when its request is rejected or answered with
\* auth = 0 the call rejects, and the credentials, the auth data, the four
\* cache fields, the store and the operations pending on it are as before;
\* a step of login() that changes the session or issues a write of the auth
\* key is the one in which the request succeeded, and the session and the
\* text written are those of the call.
C30_FailedLoginChangesNothing ==
  [][\A c \in Slots :
       /\ Calls(c, "login")
            => UNCHANGED << credentials, authData, cache, store, storeQ >>
       /\ ( /\ calls[c].op = "login"
            /\ calls[c].pc = "request"
            /\ calls'[c].pc = "done" )
            => /\ calls'[c].result.state = "rejected"
               /\ UNCHANGED << credentials, authData, cache, store, storeQ >>
       /\ ( /\ calls[c].op = "login"
            /\ calls'[c] # calls[c]
            /\ \/ credentials' # credentials
               \/ authData' # authData
               \/ AuthOps(storeQ') # AuthOps(storeQ) /\ calls[c].pc = "request" )
            => /\ calls[c].pc = "request"
               /\ calls'[c].pc = "saveCredentials"
               /\ credentials' = CredentialsOf(calls[c].arg)
               /\ authData' = AuthResponseOf(calls[c].arg)
               /\ storeQ' = Append(storeQ,
                    setItem(AUTH_STORAGE_KEY,
                            StringifyAuth(credentials', authData'),
                            NULL, "call", c))
               /\ cache' = cache
               /\ store' = store
     ]_vars

\* alice holds a session and a cached catalog; a login as bob has failed;
\* the session, the auth key and the catalog are alice's.
C30_Witness ==
  \E c \in Slots :
    /\ calls[c].op = "login"
    /\ calls[c].arg = "bob"
    /\ calls[c].pc = "done"
    /\ calls[c].result.state = "rejected"
    /\ credentials = CredentialsOf("alice")
    /\ authData = AuthResponseOf("alice")
    /\ store[AUTH_STORAGE_KEY] = StringifyAuth(credentials, authData)
    /\ cache["vodCache"] # NULL
    /\ cache["vodCache"].data.username = "alice"
    /\ store[VOD_CACHE_KEY] # NULL

====
